---- MODULE Spec2Model ----
(***************************************************************************)
(* Email ingestion, classification and reconciliation pipeline of the job  *)
(* application tracker: GmailService (app/services/gmail.py), the keyword  *)
(* and OpenAI classifiers (app/services/classifier.py) and the run_sync    *)
(* handler (app/routers/sync.py).                                          *)
(*                                                                         *)
(* Python strings are sequences of one-character strings, so that lower(), *)
(* strip(), substring tests, regular-expression searches and the parsing   *)
(* of the model's reply are computed and not assumed.                      *)
(***************************************************************************)
EXTENDS Integers, Sequences, FiniteSets, TLC

----------------------------------------------------------------------------
(* Python string primitives *)

UPPER ==
  <<"A","B","C","D","E","F","G","H","I","J","K","L","M",
    "N","O","P","Q","R","S","T","U","V","W","X","Y","Z">>

LOWER ==
  <<"a","b","c","d","e","f","g","h","i","j","k","l","m",
    "n","o","p","q","r","s","t","u","v","w","x","y","z">>

IsUpper(c) == \E k \in DOMAIN UPPER : UPPER[k] = c

IsLower(c) == \E k \in DOMAIN LOWER : LOWER[k] = c

IsAlpha(c) == IsUpper(c) \/ IsLower(c)

LowerChar(c) == IF IsUpper(c) THEN LOWER[CHOOSE k \in DOMAIN UPPER : UPPER[k] = c] ELSE c

UpperChar(c) == IF IsLower(c) THEN UPPER[CHOOSE k \in DOMAIN LOWER : LOWER[k] = c] ELSE c

\* str.lower()
Lower(s) == [i \in 1..Len(s) |-> LowerChar(s[i])]

\* str.title(): a letter that follows a non-letter is upper-cased, every other letter lower-cased
Title(s) ==
  [i \in 1..Len(s) |->
     IF i = 1 \/ ~IsAlpha(s[i - 1]) THEN UpperChar(s[i]) ELSE LowerChar(s[i])]

IsSpace(c) == c \in {" ", "\t", "\n", "\r", "\f"}

\* str.strip()
Strip(s) ==
  LET keep == {i \in 1..Len(s) : ~IsSpace(s[i])}
  IN  IF keep = {} THEN <<>>
      ELSE SubSeq(s, CHOOSE i \in keep : \A j \in keep : i <= j,
                     CHOOSE i \in keep : \A j \in keep : j <= i)

\* s[:n]
Take(s, n) == SubSeq(s, 1, IF Len(s) < n THEN Len(s) ELSE n)

\* sub occurs in s at offset i (0-based)
MatchAt(sub, s, i) == i + Len(sub) <= Len(s) /\ SubSeq(s, i + 1, i + Len(sub)) = sub

\* sub in s
Contains(sub, s) == \E i \in 0..(Len(s) - Len(sub)) : MatchAt(sub, s, i)

\* s.replace(a, b) for one-character a and b
ReplaceChar(s, a, b) == [i \in 1..Len(s) |-> IF s[i] = a THEN b ELSE s[i]]

\* re.search(p, s) for the two pattern shapes of STATUS_PATTERNS: a literal, or
\* pre.{0,gap}post where "." matches any character but a newline
ReSearch(p, s) ==
  IF p.post = <<>> THEN Contains(p.pre, s)
  ELSE \E i \in 0..(Len(s) - Len(p.pre)) :
         /\ MatchAt(p.pre, s, i)
         /\ \E g \in 0..p.gap :
              /\ MatchAt(p.post, s, i + Len(p.pre) + g)
              /\ \A k \in 1..g : s[i + Len(p.pre) + k] # "\n"

----------------------------------------------------------------------------
(* app/services/classifier.py: keyword lists *)

\* classifier.py:17-22
JOB_SENDERS ==
  <<
    <<"l","i","n","k","e","d","i","n">>, <<"i","n","d","e","e","d">>,
    <<"g","l","a","s","s","d","o","o","r">>,
    <<"z","i","p","r","e","c","r","u","i","t","e","r">>, <<"m","o","n","s","t","e","r">>,
    <<"d","i","c","e">>, <<"g","r","e","e","n","h","o","u","s","e",".","i","o">>,
    <<"l","e","v","e","r",".","c","o">>, <<"w","o","r","k","d","a","y">>,
    <<"i","c","i","m","s">>, <<"j","o","b","v","i","t","e">>,
    <<"s","m","a","r","t","r","e","c","r","u","i","t","e","r","s">>,
    <<"b","r","e","e","z","y",".","h","r">>, <<"a","s","h","b","y","h","q">>,
    <<"j","a","z","z",".","c","o">>, <<"a","p","p","l","y","t","o","j","o","b">>,
    <<"m","y","w","o","r","k","d","a","y","j","o","b","s">>, <<"t","a","l","e","o">>,
    <<"s","u","c","c","e","s","s","f","a","c","t","o","r","s">>,
    <<"u","l","t","i","p","r","o">>, <<"a","d","p">>, <<"b","a","m","b","o","o","h","r">>
  >>

\* classifier.py:24-27
JOB_SENDER_PREFIXES ==
  <<
    <<"h","r","@">>, <<"r","e","c","r","u","i","t","i","n","g","@">>,
    <<"c","a","r","e","e","r","s","@">>, <<"t","a","l","e","n","t","@">>,
    <<"j","o","b","s","@">>, <<"h","i","r","i","n","g","@">>,
    <<"r","e","c","r","u","i","t","m","e","n","t","@">>, <<"n","o","r","e","p","l","y","@">>,
    <<"n","o","-","r","e","p","l","y","@">>, <<"a","p","p","l","y","@">>,
    <<"a","p","p","l","i","c","a","t","i","o","n","s","@">>
  >>

\* classifier.py:29-34
JOB_SUBJECT_KEYWORDS ==
  <<
    <<"a","p","p","l","i","c","a","t","i","o","n">>, <<"i","n","t","e","r","v","i","e","w">>,
    <<"p","o","s","i","t","i","o","n">>, <<"r","o","l","e">>,
    <<"o","p","p","o","r","t","u","n","i","t","y">>, <<"c","a","n","d","i","d","a","t","e">>,
    <<"j","o","b">>, <<"o","f","f","e","r">>, <<"h","i","r","i","n","g">>,
    <<"a","p","p","l","y">>, <<"a","p","p","l","i","e","d">>, <<"r","e","s","u","m","e">>,
    <<"c","v">>,
    <<"t","h","a","n","k"," ","y","o","u"," ","f","o","r"," ","a","p","p","l","y","i","n","g">>,
    <<"n","e","x","t"," ","s","t","e","p","s">>, <<"s","c","h","e","d","u","l","e">>,
    <<"a","s","s","e","s","s","m","e","n","t">>,
    <<"p","h","o","n","e"," ","s","c","r","e","e","n">>,
    <<"t","e","c","h","n","i","c","a","l"," ","i","n","t","e","r","v","i","e","w">>,
    <<"o","n","s","i","t","e">>, <<"f","i","n","a","l"," ","r","o","u","n","d">>
  >>

\* classifier.py:36-46
JOB_BODY_KEYWORDS ==
  <<
    <<"t","h","a","n","k"," ","y","o","u"," ","f","o","r"," ","y","o","u","r"," ","i","n","t","e","r","e","s","t">>,
    <<"r","e","c","e","i","v","e","d"," ","y","o","u","r"," ","a","p","p","l","i","c","a","t","i","o","n">>,
    <<"r","e","v","i","e","w","e","d"," ","y","o","u","r"," ","a","p","p","l","i","c","a","t","i","o","n">>,
    <<"r","e","v","i","e","w","e","d"," ","y","o","u","r"," ","r","e","s","u","m","e">>,
    <<"y","o","u","r"," ","a","p","p","l","i","c","a","t","i","o","n"," ","f","o","r">>,
    <<"w","e"," ","r","e","g","r","e","t"," ","t","o"," ","i","n","f","o","r","m">>,
    <<"m","o","v","i","n","g"," ","f","o","r","w","a","r","d"," ","w","i","t","h"," ","o","t","h","e","r"," ","c","a","n","d","i","d","a","t","e","s">>,
    <<"u","n","f","o","r","t","u","n","a","t","e","l","y">>,
    <<"n","o","t"," ","m","o","v","i","n","g"," ","f","o","r","w","a","r","d">>,
    <<"p","o","s","i","t","i","o","n"," ","h","a","s"," ","b","e","e","n"," ","f","i","l","l","e","d">>,
    <<"p","l","e","a","s","e","d"," ","t","o"," ","i","n","v","i","t","e">>,
    <<"s","c","h","e","d","u","l","e"," ","a","n"," ","i","n","t","e","r","v","i","e","w">>,
    <<"n","e","x","t"," ","s","t","e","p","s"," ","i","n"," ","o","u","r"," ","p","r","o","c","e","s","s">>,
    <<"w","o","u","l","d"," ","l","i","k","e"," ","t","o"," ","s","c","h","e","d","u","l","e">>,
    <<"t","e","c","h","n","i","c","a","l"," ","a","s","s","e","s","s","m","e","n","t">>,
    <<"c","o","d","i","n","g"," ","c","h","a","l","l","e","n","g","e">>,
    <<"o","f","f","e","r"," ","o","f"," ","e","m","p","l","o","y","m","e","n","t">>,
    <<"p","l","e","a","s","e","d"," ","t","o"," ","o","f","f","e","r">>,
    <<"j","o","b"," ","o","f","f","e","r">>,
    <<"e","x","c","i","t","e","d"," ","t","o"," ","e","x","t","e","n","d">>,
    <<"c","o","m","p","e","n","s","a","t","i","o","n"," ","p","a","c","k","a","g","e">>,
    <<"s","t","a","r","t"," ","d","a","t","e">>,
    <<"b","a","c","k","g","r","o","u","n","d"," ","c","h","e","c","k">>,
    <<"r","e","f","e","r","e","n","c","e"," ","c","h","e","c","k">>,
    <<"o","n","b","o","a","r","d","i","n","g">>
  >>

\* classifier.py:49-75. A pattern pre.{0,gap}post is the record [pre, gap, post]; a literal
\* pattern has an empty post. The sequence keeps the dict's insertion order.
STATUS_PATTERNS ==
  <<
    [status |-> <<"d","e","c","l","i","n","e","d">>, patterns |-> <<
        [pre |-> <<"r","e","g","r","e","t"," ","t","o"," ","i","n","f","o","r","m">>, gap |-> 0, post |-> <<>>],
        [pre |-> <<"n","o","t"," ","m","o","v","i","n","g"," ","f","o","r","w","a","r","d">>, gap |-> 0, post |-> <<>>],
        [pre |-> <<"o","t","h","e","r"," ","c","a","n","d","i","d","a","t","e","s">>, gap |-> 0, post |-> <<>>],
        [pre |-> <<"u","n","f","o","r","t","u","n","a","t","e","l","y">>, gap |-> 0, post |-> <<>>],
        [pre |-> <<"p","o","s","i","t","i","o","n"," ","h","a","s"," ","b","e","e","n"," ","f","i","l","l","e","d">>, gap |-> 0, post |-> <<>>],
        [pre |-> <<"d","e","c","i","d","e","d"," ","n","o","t"," ","t","o">>, gap |-> 0, post |-> <<>>],
        [pre |-> <<"w","i","l","l"," ","n","o","t"," ","b","e"," ","m","o","v","i","n","g">>, gap |-> 0, post |-> <<>>],
        [pre |-> <<"n","o","t"," ","s","e","l","e","c","t","e","d">>, gap |-> 0, post |-> <<>>],
        [pre |-> <<"r","e","j","e","c","t","e","d">>, gap |-> 0, post |-> <<>>] >>],
    [status |-> <<"i","n","t","e","r","v","i","e","w","i","n","g">>, patterns |-> <<
        [pre |-> <<"s","c","h","e","d","u","l","e">>, gap |-> 20, post |-> <<"i","n","t","e","r","v","i","e","w">>],
        [pre |-> <<"i","n","t","e","r","v","i","e","w">>, gap |-> 10, post |-> <<"s","c","h","e","d","u","l","e","d">>],
        [pre |-> <<"p","h","o","n","e"," ","s","c","r","e","e","n">>, gap |-> 0, post |-> <<>>],
        [pre |-> <<"t","e","c","h","n","i","c","a","l"," ","i","n","t","e","r","v","i","e","w">>, gap |-> 0, post |-> <<>>],
        [pre |-> <<"o","n","s","i","t","e"," ","i","n","t","e","r","v","i","e","w">>, gap |-> 0, post |-> <<>>],
        [pre |-> <<"z","o","o","m"," ","m","e","e","t","i","n","g">>, gap |-> 0, post |-> <<>>],
        [pre |-> <<"v","i","d","e","o"," ","c","a","l","l">>, gap |-> 0, post |-> <<>>],
        [pre |-> <<"w","o","u","l","d"," ","l","i","k","e"," ","t","o"," ","m","e","e","t">>, gap |-> 0, post |-> <<>>],
        [pre |-> <<"p","l","e","a","s","e"," ","j","o","i","n">>, gap |-> 0, post |-> <<>>],
        [pre |-> <<"c","a","l","e","n","d","a","r"," ","i","n","v","i","t","e">>, gap |-> 0, post |-> <<>>],
        [pre |-> <<"f","i","n","a","l"," ","r","o","u","n","d">>, gap |-> 0, post |-> <<>>] >>],
    [status |-> <<"s","c","r","e","e","n","i","n","g">>, patterns |-> <<
        [pre |-> <<"p","h","o","n","e"," ","s","c","r","e","e","n">>, gap |-> 0, post |-> <<>>],
        [pre |-> <<"i","n","i","t","i","a","l"," ","c","a","l","l">>, gap |-> 0, post |-> <<>>],
        [pre |-> <<"q","u","i","c","k"," ","c","h","a","t">>, gap |-> 0, post |-> <<>>],
        [pre |-> <<"r","e","c","r","u","i","t","e","r"," ","c","a","l","l">>, gap |-> 0, post |-> <<>>],
        [pre |-> <<"i","n","t","r","o","d","u","c","t","o","r","y"," ","c","a","l","l">>, gap |-> 0, post |-> <<>>],
        [pre |-> <<"l","e","a","r","n"," ","m","o","r","e"," ","a","b","o","u","t"," ","y","o","u">>, gap |-> 0, post |-> <<>>] >>],
    [status |-> <<"o","f","f","e","r">>, patterns |-> <<
        [pre |-> <<"o","f","f","e","r"," ","o","f"," ","e","m","p","l","o","y","m","e","n","t">>, gap |-> 0, post |-> <<>>],
        [pre |-> <<"p","l","e","a","s","e","d"," ","t","o"," ","o","f","f","e","r">>, gap |-> 0, post |-> <<>>],
        [pre |-> <<"j","o","b"," ","o","f","f","e","r">>, gap |-> 0, post |-> <<>>],
        [pre |-> <<"o","f","f","e","r"," ","l","e","t","t","e","r">>, gap |-> 0, post |-> <<>>],
        [pre |-> <<"c","o","m","p","e","n","s","a","t","i","o","n">>, gap |-> 0, post |-> <<>>],
        [pre |-> <<"s","t","a","r","t"," ","d","a","t","e">>, gap |-> 0, post |-> <<>>],
        [pre |-> <<"e","x","c","i","t","e","d"," ","t","o"," ","e","x","t","e","n","d">>, gap |-> 0, post |-> <<>>],
        [pre |-> <<"w","e","l","c","o","m","e"," ","t","o"," ","t","h","e"," ","t","e","a","m">>, gap |-> 0, post |-> <<>>] >>],
    [status |-> <<"a","p","p","l","i","e","d">>, patterns |-> <<
        [pre |-> <<"r","e","c","e","i","v","e","d"," ","y","o","u","r"," ","a","p","p","l","i","c","a","t","i","o","n">>, gap |-> 0, post |-> <<>>],
        [pre |-> <<"t","h","a","n","k"," ","y","o","u"," ","f","o","r"," ","a","p","p","l","y","i","n","g">>, gap |-> 0, post |-> <<>>],
        [pre |-> <<"a","p","p","l","i","c","a","t","i","o","n">>, gap |-> 10, post |-> <<"r","e","c","e","i","v","e","d">>],
        [pre |-> <<"s","u","c","c","e","s","s","f","u","l","l","y"," ","s","u","b","m","i","t","t","e","d">>, gap |-> 0, post |-> <<>>],
        [pre |-> <<"a","p","p","l","i","c","a","t","i","o","n"," ","c","o","n","f","i","r","m","a","t","i","o","n">>, gap |-> 0, post |-> <<>>] >>]
  >>

----------------------------------------------------------------------------
(* app/services/classifier.py: KeywordClassifier *)

SPACE == <<" ">>

\* a threshold of one body keyword
AnyBodyMatch(body_matches) == body_matches >= 1

\* classifier.py:105
EnoughBodyMatches(body_matches) == body_matches >= 2

\* KeywordClassifier.is_job_related: the four rules, in order
KW_is_job_related(sender, subject, snippet) ==
  LET sender_lower  == Lower(sender)
      subject_lower == Lower(subject)
      snippet_lower == Lower(snippet)
      combined      == subject_lower \o SPACE \o snippet_lower
      body_matches  ==
        Cardinality({k \in DOMAIN JOB_BODY_KEYWORDS : Contains(JOB_BODY_KEYWORDS[k], combined)})
  IN  \/ \E k \in DOMAIN JOB_SENDERS : Contains(JOB_SENDERS[k], sender_lower)
      \/ \E k \in DOMAIN JOB_SENDER_PREFIXES : Contains(JOB_SENDER_PREFIXES[k], sender_lower)
      \/ \E k \in DOMAIN JOB_SUBJECT_KEYWORDS : Contains(JOB_SUBJECT_KEYWORDS[k], subject_lower)
      \/ EnoughBodyMatches(body_matches)

\* a detect_status that returns the last category, in dict order, with a matching pattern
DetectStatusLastCategory(content) ==
  LET content_lower == Lower(content)
      hit(c) == \E k \in DOMAIN STATUS_PATTERNS[c].patterns :
                   ReSearch(STATUS_PATTERNS[c].patterns[k], content_lower)
      hits   == {c \in DOMAIN STATUS_PATTERNS : hit(c)}
  IN  IF hits = {} THEN <<"a","p","p","l","i","e","d">>
      ELSE STATUS_PATTERNS[CHOOSE c \in hits : \A d \in hits : c >= d].status

\* KeywordClassifier.detect_status: first category, in dict order, with a matching pattern
KW_detect_status(content) ==
  LET content_lower == Lower(content)
      hit(c) == \E k \in DOMAIN STATUS_PATTERNS[c].patterns :
                   ReSearch(STATUS_PATTERNS[c].patterns[k], content_lower)
      hits   == {c \in DOMAIN STATUS_PATTERNS : hit(c)}
  IN  IF hits = {} THEN <<"a","p","p","l","i","e","d">>
      ELSE STATUS_PATTERNS[CHOOSE c \in hits : \A d \in hits : c <= d].status

\* classifier.py:129
GENERIC_NAMES ==
  {<<"h","r">>, <<"r","e","c","r","u","i","t","i","n","g">>, <<"c","a","r","e","e","r","s">>,
   <<"t","a","l","e","n","t">>, <<"j","o","b","s">>, <<"n","o","r","e","p","l","y">>,
   <<"n","o","-","r","e","p","l","y">>}

\* classifier.py:137
GENERIC_DOMAINS ==
  {<<"g","m","a","i","l">>, <<"y","a","h","o","o">>, <<"h","o","t","m","a","i","l">>,
   <<"o","u","t","l","o","o","k">>, <<"g","r","e","e","n","h","o","u","s","e">>,
   <<"l","e","v","e","r">>, <<"w","o","r","k","d","a","y">>}

UNKNOWN_COMPANY == <<"U","n","k","n","o","w","n"," ","C","o","m","p","a","n","y">>

UNKNOWN == <<"U","n","k","n","o","w","n">>

\* re.match(r'^([^<]+)\s*<', sender): group 1 is everything before the first "<",
\* which must not be the first character; <<>> stands for "no match" only with ok FALSE
DisplayNameMatch(sender) ==
  LET lt == {i \in 1..Len(sender) : sender[i] = "<"}
  IN  IF lt = {} THEN [ok |-> FALSE, group |-> <<>>]
      ELSE LET first == CHOOSE i \in lt : \A j \in lt : i <= j
           IN  IF first = 1 THEN [ok |-> FALSE, group |-> <<>>]
               ELSE [ok |-> TRUE, group |-> SubSeq(sender, 1, first - 1)]

\* re.search(r'@([^.]+)\.', sender): the leftmost "@" followed by at least one
\* character other than "." and then a "."; group 1 is the text between them
DomainMatch(sender) ==
  LET nextDot(i) == {j \in (i + 1)..Len(sender) : sender[j] = "."}
      firstDot(i) == CHOOSE j \in nextDot(i) : \A k \in nextDot(i) : j <= k
      ats == {i \in 1..Len(sender) :
                sender[i] = "@" /\ nextDot(i) # {} /\ firstDot(i) > i + 1}
  IN  IF ats = {} THEN [ok |-> FALSE, group |-> <<>>]
      ELSE LET at == CHOOSE i \in ats : \A j \in ats : i <= j
           IN  [ok |-> TRUE, group |-> SubSeq(sender, at + 1, firstDot(at) - 1)]

\* KeywordClassifier.extract_company
KW_extract_company(sender, subject, body) ==
  LET m  == DisplayNameMatch(sender)
      dm == DomainMatch(sender)
  IN  IF m.ok /\ Lower(Strip(m.group)) \notin GENERIC_NAMES THEN Strip(m.group)
      ELSE IF dm.ok /\ Lower(dm.group) \notin GENERIC_DOMAINS THEN Title(dm.group)
      ELSE UNKNOWN_COMPANY

\* body[:500] in KeywordClassifier.classify_email
BodyPrefixLen == 500

K_company == <<"c","o","m","p","a","n","y">>

K_job_title == <<"j","o","b","_","t","i","t","l","e">>

K_location == <<"l","o","c","a","t","i","o","n">>

K_status == <<"s","t","a","t","u","s">>

\* Optional[dict]: None, or a dict as a function from keys to values
NoneResult == [is_none |-> TRUE, dict |-> <<>>]

Some(d) == [is_none |-> FALSE, dict |-> d]

\* KeywordClassifier.classify_email
KW_classify_email(sender, subject, body) ==
  IF ~KW_is_job_related(sender, subject, Take(body, BodyPrefixLen)) THEN NoneResult
  ELSE Some((K_company :> KW_extract_company(sender, subject, body))
            @@ (K_job_title :> UNKNOWN)
            @@ (K_location :> UNKNOWN)
            @@ (K_status :> KW_detect_status(subject \o SPACE \o body)))

----------------------------------------------------------------------------
(* app/services/classifier.py: EmailClassifier *)

\* What one call of client.chat.completions.create does: it raises an error of
\* class exc, or returns a response whose message content is text, or is None (null)
Reply(t) == [exc |-> "none", null |-> FALSE, text |-> t]

NullReply == [exc |-> "none", null |-> TRUE, text |-> <<>>]

Raises(e) == [exc |-> e, null |-> FALSE, text |-> <<>>]

\* the error classes met in the try blocks; all derive from Exception
ExceptionClasses == {"APIError", "RateLimitError", "AttributeError"}

\* a handler that only catches APIError
ExceptAPIError(e) == e = "APIError"

\* "except Exception" (classifier.py:212 and :293)
ExceptException(e) == e \in ExceptionClasses

\* the outcome of a call: it raised exc, or returned value
Returned(v) == [exc |-> "none", value |-> v]

Raised(e, v) == [exc |-> e, value |-> v]

YES == <<"y","e","s">>

\* a try block that takes every reply that starts with yes for a yes
TryIsJobRelatedPrefix(beh) ==
  IF beh.exc # "none" THEN Raised(beh.exc, FALSE)
  ELSE IF beh.null THEN Raised("AttributeError", FALSE)
  ELSE Returned(MatchAt(YES, Lower(Strip(beh.text)), 0))

\* the try block of EmailClassifier.is_job_related (classifier.py:191-211)
TryIsJobRelated(beh) ==
  IF beh.exc # "none" THEN Raised(beh.exc, FALSE)
  ELSE IF beh.null THEN Raised("AttributeError", FALSE)
  ELSE Returned(Lower(Strip(beh.text)) = YES)

\* EmailClassifier.is_job_related; beh is what the model client does if it is called
EC_is_job_related(has_client, sender, subject, snippet, beh) ==
  IF KW_is_job_related(sender, subject, snippet) THEN Returned(TRUE)
  ELSE IF has_client
       THEN LET t == TryIsJobRelated(beh)
            IN  IF t.exc = "none" THEN t
                ELSE IF ExceptException(t.exc) THEN Returned(FALSE)
                ELSE t
       ELSE Returned(FALSE)

\* a relatedness check that asks the model client whatever the keywords say
AsksAlways(has_client, sender, subject, snippet) == has_client

\* whether EmailClassifier.is_job_related sends a request to the model client
EC_is_job_related_asks(has_client, sender, subject, snippet) ==
  ~KW_is_job_related(sender, subject, snippet) /\ has_client

NOT_JOB_EMAIL == <<"N","O","T","_","J","O","B","_","E","M","A","I","L">>

COLON == <<":">>

LineBreaks == {"\n", "\r"}

\* str.splitlines() followed by line.strip(): the stripped line that starts after offset a
LineStarts(s) == {0} \cup {i \in 1..Len(s) : s[i] \in LineBreaks}

LineFrom(s, a) ==
  LET ends == {j \in (a + 1)..Len(s) : s[j] \in LineBreaks}
      e    == IF ends = {} THEN Len(s) + 1 ELSE CHOOSE j \in ends : \A k \in ends : j <= k
  IN  Strip(SubSeq(s, a + 1, e - 1))

\* line.split(':', 1) of a line that contains ':'
FirstColon(line) ==
  CHOOSE i \in 1..Len(line) : line[i] = ":" /\ \A j \in 1..(i - 1) : line[j] # ":"

LineKey(line) ==
  ReplaceChar(Lower(Strip(SubSeq(line, 1, FirstColon(line) - 1))), " ", "_")

LineValue(line) == Strip(SubSeq(line, FirstColon(line) + 1, Len(line)))

\* classifier.py:264-270: the dict built from the "key: value" lines; a later line
\* with the same key overwrites an earlier one
ParseDetails(result) ==
  LET starts == {a \in LineStarts(result) : Contains(COLON, LineFrom(result, a))}
      keys   == {LineKey(LineFrom(result, a)) : a \in starts}
      final(k) == CHOOSE a \in starts :
                   /\ LineKey(LineFrom(result, a)) = k
                   /\ \A b \in starts : LineKey(LineFrom(result, b)) = k => b <= a
  IN  [k \in keys |-> LineValue(LineFrom(result, final(k)))]

\* classifier.py:273-281, in dict order
status_map ==
  << [key |-> <<"a","p","p","l","i","e","d">>, value |-> <<"a","p","p","l","i","e","d">>],
     [key |-> <<"s","c","r","e","e","n","i","n","g">>, value |-> <<"s","c","r","e","e","n","i","n","g">>],
     [key |-> <<"i","n","t","e","r","v","i","e","w","i","n","g">>, value |-> <<"i","n","t","e","r","v","i","e","w","i","n","g">>],
     [key |-> <<"o","f","f","e","r">>, value |-> <<"o","f","f","e","r">>],
     [key |-> <<"d","e","c","l","i","n","e","d">>, value |-> <<"d","e","c","l","i","n","e","d">>],
     [key |-> <<"r","e","j","e","c","t","e","d">>, value |-> <<"d","e","c","l","i","n","e","d">>],
     [key |-> <<"w","i","t","h","d","r","a","w","n">>, value |-> <<"w","i","t","h","d","r","a","w","n">>] >>

\* details whose status is left as the model wrote it
KeepStatus(details) == details

\* classifier.py:283-288: the first alias contained in the lower-cased status wins
NormalizeStatus(details) ==
  IF K_status \notin DOMAIN details THEN details
  ELSE LET raw_status == Lower(details[K_status])
           hits == {k \in DOMAIN status_map : Contains(status_map[k].key, raw_status)}
       IN  IF hits = {} THEN details
           ELSE [details EXCEPT ![K_status] =
                   status_map[CHOOSE k \in hits : \A j \in hits : k <= j].value]

\* dict.get(key, default)
Get(d, key, default) == IF key \in DOMAIN d THEN d[key] ELSE default

\* a test for the key, not for a value
HasCompanyKey(details) == K_company \in DOMAIN details

\* classifier.py:290: details.get('company') is truthy
HasCompany(details) == Get(details, K_company, <<>>) # <<>>

\* a test that never recognises the reply NOT_JOB_EMAIL
NeverSentinel(result) == FALSE

\* classifier.py:260: the reply is the literal NOT_JOB_EMAIL
IsSentinel(result) == result = NOT_JOB_EMAIL

\* the try block of EmailClassifier.classify_email (classifier.py:224-291): it raises,
\* returns a value, or falls through to the keyword classifier (fell)
TryClassifyEmail(beh) ==
  IF beh.exc # "none" THEN [exc |-> beh.exc, fell |-> FALSE, value |-> NoneResult]
  ELSE IF beh.null THEN [exc |-> "AttributeError", fell |-> FALSE, value |-> NoneResult]
  ELSE LET result  == Strip(beh.text)
           details == NormalizeStatus(ParseDetails(result))
       IN  IF IsSentinel(result)
             THEN [exc |-> "none", fell |-> FALSE, value |-> NoneResult]
           ELSE IF HasCompany(details)
             THEN [exc |-> "none", fell |-> FALSE, value |-> Some(details)]
           ELSE [exc |-> "none", fell |-> TRUE, value |-> NoneResult]

\* EmailClassifier.classify_email; beh is what the model client does if it is called
EC_classify_email(has_client, sender, subject, body, beh) ==
  IF has_client
  THEN LET t == TryClassifyEmail(beh)
       IN  IF t.exc # "none" /\ ~ExceptException(t.exc) THEN Raised(t.exc, NoneResult)
           ELSE IF t.exc = "none" /\ ~t.fell THEN Returned(t.value)
           ELSE Returned(KW_classify_email(sender, subject, body))
  ELSE Returned(KW_classify_email(sender, subject, body))

\* an extraction that asks the model client whether or not there is one
ClassifyAsksAlways(has_client) == TRUE

\* whether EmailClassifier.classify_email sends a request to the model client
EC_classify_email_asks(has_client) == has_client
----------------------------------------------------------------------------
(* The mailbox behind the Gmail API *)

\* The messages the mailbox receives, in order of arrival: MAIL[k] arrives at tick k.
\* payload.parts holds the decoded text of each MIME part and payload.body that of a
\* message without parts; internalDate is in
\* milliseconds, 0 when the API returns none.
MAIL ==
  << [id |-> "m1", threadId |-> "t1", labelIds |-> {"INBOX"}, internalDate |-> 1000,
      from |-> <<"c","a","r","e","e","r","s","@","a","c","m","e",".","c","o","m">>,
      subject |-> <<"T","h","a","n","k"," ","y","o","u"," ","f","o","r"," ","a","p","p","l","y","i","n","g"," ","t","o"," ","A","c","m","e">>,
      snippet |-> <<"W","e"," ","r","e","c","e","i","v","e","d"," ","y","o","u","r"," ","a","p","p","l","i","c","a","t","i","o","n",".">>,
      parts |-> << [mimeType |-> "text/plain",
                    data |-> <<"W","e"," ","r","e","c","e","i","v","e","d"," ","y","o","u","r"," ","a","p","p","l","i","c","a","t","i","o","n",".">>] >>,
      body |-> << >>],
     [id |-> "m2", threadId |-> "", labelIds |-> {"INBOX"}, internalDate |-> 0,
      from |-> <<"b","o","b","@","e","x","a","m","p","l","e",".","c","o","m">>,
      subject |-> <<"H","e","l","l","o">>,
      snippet |-> <<"s","e","e"," ","y","o","u"," ","a","t"," ","l","u","n","c","h">>,
      parts |-> << >>,
      body |-> <<"s","e","e"," ","y","o","u"," ","a","t"," ","l","u","n","c","h">>],
     [id |-> "m3", threadId |-> "t1", labelIds |-> {"INBOX", "Jobs"}, internalDate |-> 3000,
      from |-> <<"A","c","m","e"," ","C","o","r","p"," ","<","j","a","n","e","@","a","c","m","e",".","c","o","m",">">>,
      subject |-> <<"I","n","t","e","r","v","i","e","w"," ","i","n","v","i","t","a","t","i","o","n">>,
      snippet |-> <<"W","e"," ","w","o","u","l","d"," ","l","i","k","e"," ","t","o"," ","s","c","h","e","d","u","l","e"," ","a","n"," ","i","n","t","e","r","v","i","e","w",".">>,
      parts |-> << [mimeType |-> "text/html", data |-> <<"<","p",">","H","i","<","/","p",">">>],
                   [mimeType |-> "text/plain",
                    data |-> <<"W","e"," ","w","o","u","l","d"," ","l","i","k","e"," ","t","o"," ","s","c","h","e","d","u","l","e"," ","a","n"," ","i","n","t","e","r","v","i","e","w",".">>] >>,
      body |-> << >>],
     [id |-> "m4", threadId |-> "", labelIds |-> {"Jobs"}, internalDate |-> 4000,
      from |-> <<"b","o","b","@","e","x","a","m","p","l","e",".","c","o","m">>,
      subject |-> <<"U","p","d","a","t","e">>,
      snippet |-> <<"u","n","f","o","r","t","u","n","a","t","e","l","y"," ","t","h","e"," ","p","o","s","i","t","i","o","n"," ","h","a","s"," ","b","e","e","n"," ","f","i","l","l","e","d">>,
      parts |-> << [mimeType |-> "text/html",
                    data |-> <<"<","p",">","u","n","f","o","r","t","u","n","a","t","e","l","y"," ","t","h","e"," ","p","o","s","i","t","i","o","n"," ","h","a","s"," ","b","e","e","n"," ","f","i","l","l","e","d","<","/","p",">">>] >>,
      body |-> << >>]
  >>

MessageIds == {MAIL[k].id : k \in DOMAIN MAIL}

MessageOf(id) == MAIL[CHOOSE k \in DOMAIN MAIL : MAIL[k].id = id]

\* GMAIL_LABELS (gmail.py:24), here the deployment scans two overlapping labels
GMAIL_LABELS == <<"INBOX", "Jobs">>

\* gmail.py:154
SYSTEM_LABELS == {"INBOX", "SENT", "SPAM", "TRASH", "DRAFT", "STARRED", "UNREAD", "IMPORTANT"}

\* the custom labels of the mailbox, as users().labels().list returns them
CUSTOM_LABELS == {"Jobs"}

\* max_results of fetch_messages (gmail.py:123)
DefaultMaxResults == 100

\* body[:4000] in get_message_content (gmail.py:229)
BodyLimit == 4000

----------------------------------------------------------------------------
(* app/services/gmail.py: GmailService *)

\* a check that takes every installation for configured
AlwaysConfigured(g) == TRUE

\* GmailService.is_configured
is_configured(g) == g.token # "absent" \/ g.creds_file

\* GmailService.authenticate. g.token is the state of the token file: absent, valid,
\* expired (with a refresh token) or unusable (not valid, nothing to refresh).
\* refresh_ok, flow_ok and build_ok say whether creds.refresh, the OAuth flow and
\* build() succeed. The result is the return value and the service afterwards.
authenticate(g, refresh_ok, flow_ok, build_ok) ==
  LET fail == [ok |-> FALSE, g |-> g]
      built(h) == IF build_ok THEN [ok |-> TRUE, g |-> [h EXCEPT !.service = TRUE]]
                  ELSE [ok |-> FALSE, g |-> h]
  IN  IF g.token = "valid" THEN built(g)
      ELSE IF g.token = "expired"
        THEN IF refresh_ok THEN built([g EXCEPT !.token = "valid"]) ELSE fail
      ELSE IF g.creds_file
        THEN IF flow_ok THEN built([g EXCEPT !.token = "valid"]) ELSE fail
      ELSE fail

\* users().messages().list(labelIds, q, maxResults): the messages that arrived up to
\* tick now and not before now - since_hours and carry the label, newest first, at most
\* max_results of them
RECURSIVE ListNewestFirst(_, _, _)
ListNewestFirst(k, oldest, label) ==
  IF k < 1 \/ k < oldest THEN <<>>
  ELSE (IF label \in MAIL[k].labelIds
          THEN << [id |-> MAIL[k].id, threadId |-> MAIL[k].threadId] >>
          ELSE <<>>)
       \o ListNewestFirst(k - 1, oldest, label)

messages_list(now, since_hours, label, max_results) ==
  Take(ListNewestFirst(now, now - since_hours, label), max_results)

\* a loop that appends every listed message
RECURSIVE AppendAll(_, _, _)
AppendAll(all_messages, messages, k) ==
  IF k > Len(messages) THEN all_messages
  ELSE AppendAll(Append(all_messages, messages[k]), messages, k + 1)

\* gmail.py:173-176: append the messages whose id has not been seen
RECURSIVE AppendUnseen(_, _, _)
AppendUnseen(all_messages, messages, k) ==
  IF k > Len(messages) THEN all_messages
  ELSE IF \E j \in DOMAIN all_messages : all_messages[j].id = messages[k].id
         THEN AppendUnseen(all_messages, messages, k + 1)
         ELSE AppendUnseen(Append(all_messages, messages[k]), messages, k + 1)

\* GmailService.fetch_messages (gmail.py:148-184): label after label; a label that is
\* not found, or whose list call raises HttpError (label \in failing), is skipped
RECURSIVE FetchLabels(_, _, _, _, _, _, _)
FetchLabels(all_messages, labels, k, now, since_hours, max_results, failing) ==
  IF k > Len(labels) THEN all_messages
  ELSE IF labels[k] \notin SYSTEM_LABELS \cup CUSTOM_LABELS \/ labels[k] \in failing
         THEN FetchLabels(all_messages, labels, k + 1, now, since_hours, max_results, failing)
         ELSE FetchLabels(
                AppendUnseen(all_messages,
                             messages_list(now, since_hours, labels[k], max_results), 1),
                labels, k + 1, now, since_hours, max_results, failing)

fetch_messages(now, since_hours, max_results, labels, failing) ==
  FetchLabels(<<>>, labels, 1, now, since_hours, max_results, failing)

\* GmailService._extract_body: the text/plain parts, concatenated; the payload body when
\* the message has no parts
RECURSIVE PlainParts(_, _)
PlainParts(parts, k) ==
  IF k > Len(parts) THEN <<>>
  ELSE (IF parts[k].mimeType = "text/plain" THEN parts[k].data ELSE <<>>)
       \o PlainParts(parts, k + 1)

extract_body(m) == IF Len(m.parts) > 0 THEN PlainParts(m.parts, 1) ELSE m.body

\* GmailService.get_message_content: {} (empty) when there is no service or the get call
\* raises HttpError, else the dict; date is internalDate / 1000, None (0) when internalDate is 0
EmptyContent ==
  [empty |-> TRUE, thread_id |-> "", snippet |-> <<>>, subject |-> <<>>, from |-> <<>>,
   body |-> <<>>, date |-> 0]

get_message_content(g, message_id, http_error) ==
  IF ~g.service \/ http_error THEN EmptyContent
  ELSE LET m == MessageOf(message_id)
       IN  [empty |-> FALSE, thread_id |-> m.threadId, snippet |-> m.snippet,
            subject |-> m.subject, from |-> m.from,
            body |-> Take(extract_body(m), BodyLimit),
            date |-> m.internalDate \div 1000]

----------------------------------------------------------------------------
(* app/routers/sync.py: run_sync *)

\* the most runs that get to the message loop in a behaviour
MaxRuns == 2

\* the widest lookback window a caller asks for, in ticks
MaxHours == 2

Users == {"u1", "u2"}

\* request.state.user is None: nobody is logged in
NoUser == "anonymous"

APPLIED == <<"a","p","p","l","i","e","d">>

\* STATUS_MAP (sync.py:28-35)
STATUS_MAP ==
  (APPLIED :> "APPLIED")
  @@ (<<"s","c","r","e","e","n","i","n","g">> :> "SCREENING")
  @@ (<<"i","n","t","e","r","v","i","e","w","i","n","g">> :> "INTERVIEWING")
  @@ (<<"o","f","f","e","r">> :> "OFFER")
  @@ (<<"d","e","c","l","i","n","e","d">> :> "DECLINED")
  @@ (<<"w","i","t","h","d","r","a","w","n">> :> "WITHDRAWN")

\* a mapping that takes the last status for the default
MapStatusDefaultsLast(details) ==
  LET status_str == Lower(Get(details, K_status, APPLIED))
  IN  IF status_str \in DOMAIN STATUS_MAP THEN STATUS_MAP[status_str] ELSE "WITHDRAWN"

\* a mapping that knows the status accepted
MapStatusAccepts(details) ==
  LET status_str == Lower(Get(details, K_status, APPLIED))
  IN  IF status_str = <<"a","c","c","e","p","t","e","d">> THEN "ACCEPTED"
      ELSE IF status_str \in DOMAIN STATUS_MAP THEN STATUS_MAP[status_str] ELSE "APPLIED"

\* sync.py:126-127
MapStatus(details) ==
  LET status_str == Lower(Get(details, K_status, APPLIED))
  IN  IF status_str \in DOMAIN STATUS_MAP THEN STATUS_MAP[status_str] ELSE "APPLIED"

VARIABLES
  gmail,   \* gmail_service and its files: [token, creds_file, service]
  client,  \* whether classifier.client is set (an OpenAI key is configured)
  clock,   \* the tick; MAIL[1..clock] have arrived
  db,      \* the committed store: [ledger, apps, changes]
  run,     \* the run_sync request in progress, or the one that just ended
  runs,    \* the number of runs that got to the message loop
  last,    \* the last run that committed since the last arrival: its user, its batch
           \* and the messages of the batch whose content could not be fetched
  call,    \* the call of a function of the classifiers or of the status mapping that
           \* is being looked at on its own: its arguments and what it returned
  resumes, \* the Resume table: row k has id k; [user_id, is_default, present]
  pair     \* two run_sync requests served by two processes at once: [a, b]

vars == <<gmail, client, clock, db, run, runs, last, call, resumes, pair>>

\* no function is being looked at
NoCallYet == [fn |-> "-"]

\* no two requests are being served at once
NoPair == [a |-> "-", b |-> "-"]

EmptyStore == [ledger |-> <<>>, apps |-> <<>>, changes |-> <<>>]

\* what a pass of the loop did (the trace of the run keeps the last pass): the message,
\* whether its id was in the ledger, whether its content was asked for and obtained, how
\* the calls of the model client ended, whether a classifier call raised into the loop,
\* whether the message was recorded (and as what), whether a classification came back,
\* the StatusChange appended and the Application created, whether the session and the
\* counters changed; the status the classification was mapped to; the Application of
\* the user that had the thread of the message before the pass and its status then;
\* how many ledger records, Applications and StatusChanges the pass added and how much
\* it added to the counters; whether it modified an Application that was there before;
\* the text of the reply to the extraction call, when it was neither an error nor the
\* sentinel
StepEntry(id) ==
  [id |-> id, existing |-> FALSE, fetched |-> FALSE, got |-> FALSE,
   rel |-> "-", ext |-> "-", raised |-> FALSE, marked |-> FALSE, is_job |-> FALSE,
   classified |-> FALSE, change |-> 0, created |-> 0, wrote |-> FALSE,
   counted |-> FALSE, status |-> "-", matched |-> 0, was |-> "-",
   d_ledger |-> 0, d_apps |-> 0, d_changes |-> 0, d_new |-> 0, d_updated |-> 0,
   modified |-> FALSE, said |-> <<>>]

NoStep == StepEntry("")

\* no redirect to /sync/?success=1 was sent
NoResponse == <<>>

IdleRun ==
  [pc |-> "idle", user |-> NoUser, messages |-> <<>>, i |-> 1,
   base |-> EmptyStore, sess |-> EmptyStore, new_applications |-> 0,
   updated_applications |-> 0, outcome |-> "-", unavailable |-> {}, repeat |-> FALSE,
   step |-> NoStep, response |-> NoResponse]

\* a ledger lookup that never finds a record
LedgerHasNever(store, msg_id) == FALSE

\* a ledger lookup that only finds the records of job-related messages
LedgerHasJobRelated(store, msg_id) ==
  \E k \in DOMAIN store.ledger :
    store.ledger[k].message_id = msg_id /\ store.ledger[k].is_job_related

\* sync.py:89-91: db.query(ProcessedEmail).filter(message_id == msg_id).first()
LedgerHas(store, msg_id) ==
  \E k \in DOMAIN store.ledger : store.ledger[k].message_id = msg_id

\* a thread lookup that never matches
FindByThreadNever(store, thread_id, user_id) == 0

\* a thread lookup over the Applications of every user
FindByThreadAnyUser(store, thread_id, user_id) ==
  LET hits == {k \in DOMAIN store.apps : store.apps[k].email_thread_id = thread_id}
  IN  IF thread_id = "" \/ hits = {} THEN 0
      ELSE CHOOSE k \in hits : \A j \in hits : k <= j

\* a thread lookup that is also made for a message without a thread id
FindByThreadEvenEmpty(store, thread_id, user_id) ==
  LET hits == {k \in DOMAIN store.apps :
                 /\ store.apps[k].email_thread_id = thread_id
                 /\ store.apps[k].user_id = user_id}
  IN  IF hits = {} THEN 0 ELSE CHOOSE k \in hits : \A j \in hits : k <= j

\* sync.py:133-137: the first Application of the user with the thread id; 0 when the
\* message has no thread id or no Application matches
FindByThread(store, thread_id, user_id) ==
  LET hits == {k \in DOMAIN store.apps :
                 /\ store.apps[k].email_thread_id = thread_id
                 /\ store.apps[k].user_id = user_id}
  IN  IF thread_id = "" \/ hits = {} THEN 0
      ELSE CHOOSE k \in hits : \A j \in hits : k <= j

\* a comparison that takes every classification for a change of status
StatusAlwaysDiffers(app, status) == TRUE

\* a comparison that takes no classification for a change of status
StatusNeverDiffers(app, status) == FALSE

\* a comparison that lets an Application move forward in the lifecycle only
StatusAdvances(app, status) ==
  LET order == <<"APPLIED", "SCREENING", "INTERVIEWING", "OFFER", "ACCEPTED",
                 "DECLINED", "WITHDRAWN">>
      rank(s) == CHOOSE k \in DOMAIN order : order[k] = s
  IN  rank(status) > rank(app.status)

\* sync.py:141
StatusDiffers(app, status) == app.status # status

\* what the model client may do when asked whether a message is job-related
RelBehaviours ==
  {Reply(<<"Y","e","s">>), Reply(<<"N","o">>), NullReply, Raises("RateLimitError")}

\* what the model client may do when asked to extract the details
ExtBehaviours ==
  {Raises("APIError"), NullReply, Reply(NOT_JOB_EMAIL),
   Reply(<<"C","o","m","p","a","n","y",":"," ","A","c","m","e","\n","J","o","b"," ","T","i","t","l","e",":"," ","E","n","g","i","n","e","e","r","\n","L","o","c","a","t","i","o","n",":"," ","R","e","m","o","t","e","\n","S","t","a","t","u","s",":"," ","I","n","t","e","r","v","i","e","w","i","n","g">>)}

\* a reply that names a status outside the vocabulary of the prompt
OutOfVocabulary == Reply(<<"C","o","m","p","a","n","y",":"," ","A","c","m","e","\n","S","t","a","t","u","s",":"," ","A","c","c","e","p","t","e","d">>)

\* what the model client may do when asked to extract the details of a message: the
\* reply outside the vocabulary is given for the oldest message of MAIL
ExtBehavioursFor(id) ==
  IF id = MAIL[1].id THEN ExtBehaviours \cup {OutOfVocabulary} ELSE ExtBehaviours

\* the model client is not called
NoCall == Reply(<<>>)

\* f, with its values computed once
Tabulate(f) == f @@ <<>>

\* EmailClassifier.is_job_related and EmailClassifier.classify_email on the content of each
\* message of MAIL, for each thing the model client may do: the calls of sync.py:107 and
\* sync.py:120, tabulated
IsJobRelatedOf ==
  Tabulate([cl \in BOOLEAN |-> Tabulate([id \in MessageIds |->
    Tabulate([beh \in RelBehaviours \cup {NoCall} |->
      LET c == get_message_content([service |-> TRUE], id, FALSE)
      IN  EC_is_job_related(cl, c.from, c.subject, c.snippet, beh)])])])

ClassifyEmailOf ==
  Tabulate([cl \in BOOLEAN |-> Tabulate([id \in MessageIds |->
    Tabulate([beh \in ExtBehavioursFor(id) \cup {NoCall} |->
      LET c == get_message_content([service |-> TRUE], id, FALSE)
      IN  EC_classify_email(cl, c.from, c.subject, c.body, beh)])])])

AsksModelOf ==
  Tabulate([cl \in BOOLEAN |-> Tabulate([id \in MessageIds |->
    LET c == get_message_content([service |-> TRUE], id, FALSE)
    IN  EC_is_job_related_asks(cl, c.from, c.subject, c.snippet)])])

\* how a call of the model client ended, for the trace: not made, with an error, with
\* the reply NOT_JOB_EMAIL, with another text
CallKind(asked, beh) ==
  IF ~asked THEN "-"
  ELSE IF beh.exc # "none" \/ beh.null THEN "error"
  ELSE IF Strip(beh.text) = NOT_JOB_EMAIL THEN "sentinel"
  ELSE "text"

\* queries that see the committed rows only
CommittedRowsOnly(r, sess) == r.base

\* sync.py:169-170: db.add(app) is followed by db.flush(), so the queries of the later
\* passes read the rows the run has written so far
FlushedRows(r, sess) == sess

\* an update that also takes over the company, job title and location of the message
MergeApp(app, status, content, details) ==
  [app EXCEPT !.status = status,
              !.last_email_date = content.date,
              !.company = Get(details, K_company, @),
              !.job_title = Get(details, K_job_title, @),
              !.location = Get(details, K_location, @)]

\* sync.py:143-144: the two assignments to the Application the thread query found
UpdateApp(app, status, content, details) ==
  [app EXCEPT !.status = status, !.last_email_date = content.date]

\* sync.py:125-181: merge a classification into the Applications of the user
Reconcile(r, sess, content, details, now, entry) ==
  LET status       == MapStatus(details)
      thread_id    == content.thread_id
      existing_app == FindByThread(FlushedRows(r, sess), thread_id, r.user)
      traced       == [entry EXCEPT !.status = status]
  IN  IF existing_app # 0
      THEN IF StatusDiffers(sess.apps[existing_app], status)
           THEN [r EXCEPT
                   !.sess = [sess EXCEPT
                      !.apps[existing_app] = UpdateApp(@, status, content, details),
                      !.changes = Append(@, [application_id |-> existing_app,
                                             old_status |-> sess.apps[existing_app].status,
                                             new_status |-> status,
                                             source |-> "email"])],
                   !.updated_applications = @ + 1,
                   !.i = @ + 1,
                   !.step = [traced EXCEPT !.change = Len(sess.changes) + 1]]
           ELSE [r EXCEPT !.sess = sess, !.i = @ + 1, !.step = traced]
      ELSE [r EXCEPT
              !.sess = [sess EXCEPT
                 !.apps = Append(@, [user_id |-> r.user,
                                     company |-> Get(details, K_company, UNKNOWN),
                                     job_title |-> Get(details, K_job_title, UNKNOWN),
                                     location |-> Get(details, K_location, UNKNOWN),
                                     status |-> status,
                                     email_thread_id |-> thread_id,
                                     last_email_date |-> content.date,
                                     applied_date |->
                                       IF content.date # 0 THEN content.date ELSE now]),
                 !.changes = Append(@, [application_id |-> Len(sess.apps) + 1,
                                        old_status |-> "None",
                                        new_status |-> status,
                                        source |-> "email"])],
              !.new_applications = @ + 1,
              !.i = @ + 1,
              !.step = [traced EXCEPT !.change = Len(sess.changes) + 1,
                                   !.created = Len(sess.apps) + 1]]

\* the run ends with an exception: nothing was committed, the session is dropped
Failed(r, store, entry) ==
  [IdleRun EXCEPT !.pc = "done", !.outcome = "exception", !.user = r.user,
                  !.base = r.base, !.sess = store, !.step = entry]

\* sync.py:92-94: the message was processed before
SkipProcessed(r, entry) == [r EXCEPT !.i = @ + 1, !.step = entry]

\* a skip that records the message whose content is missing
RecordUnavailable(r, msg_id, entry) ==
  [r EXCEPT !.sess.ledger = Append(@, [message_id |-> msg_id, is_job_related |-> FALSE]),
            !.i = @ + 1, !.unavailable = @ \cup {msg_id}, !.step = entry]

\* a skip that stays at the message whose content is missing
RetryUnavailable(r, msg_id, entry) ==
  [r EXCEPT !.unavailable = @ \cup {msg_id}, !.step = entry]

\* sync.py:98-99: no content, the message is left for a later run
SkipUnavailable(r, msg_id, entry) ==
  [r EXCEPT !.i = @ + 1, !.unavailable = @ \cup {msg_id}, !.step = entry]

\* a pass that forgets to record the message
MarkNothing(sess, msg_id, is_job) == sess

\* a pass that keeps the record of its message only
MarkLatestOnly(sess, msg_id, is_job) ==
  [sess EXCEPT !.ledger = <<[message_id |-> msg_id, is_job_related |-> is_job]>>]

\* sync.py:110-114: db.add(ProcessedEmail(message_id, is_job_related))
MarkProcessed(sess, msg_id, is_job) ==
  [sess EXCEPT !.ledger = Append(@, [message_id |-> msg_id, is_job_related |-> is_job])]

\* sync.py:85-181: one pass of the loop, for messages[i]. http_error: the get call of
\* get_message_content raises HttpError; rel_beh, ext_beh: what the model client does
\* when is_job_related and classify_email call it
LoopBody(r, store, g, cl, now, http_error, rel_beh, ext_beh) ==
  LET msg_id  == r.messages[r.i].id
      entry0  == StepEntry(msg_id)
      content == get_message_content(g, msg_id, http_error)
      asks    == AsksModelOf[cl][msg_id]
      is_job  == IsJobRelatedOf[cl][msg_id][rel_beh]
      entry1  == [entry0 EXCEPT !.fetched = TRUE, !.got = TRUE,
                                !.rel = CallKind(asks, rel_beh)]
      sess1   == MarkProcessed(r.sess, msg_id, is_job.value)
      entry2  == [entry1 EXCEPT !.marked = TRUE, !.is_job = is_job.value]
      details == ClassifyEmailOf[cl][msg_id][ext_beh]
      entry3  == [entry2 EXCEPT !.ext = CallKind(cl, ext_beh),
                                !.said = IF CallKind(cl, ext_beh) = "text"
                                         THEN ext_beh.text ELSE <<>>]
  IN  IF LedgerHas(r.sess, msg_id) THEN SkipProcessed(r, entry0)
      ELSE IF content.empty
        THEN SkipUnavailable(r, msg_id, [entry0 EXCEPT !.fetched = TRUE])
      ELSE IF is_job.exc # "none"
        THEN Failed(r, store, [entry1 EXCEPT !.raised = TRUE])
      ELSE IF ~is_job.value
        THEN [r EXCEPT !.sess = sess1, !.i = @ + 1, !.step = entry2]
      ELSE IF details.exc # "none"
        THEN Failed(r, store, [entry3 EXCEPT !.raised = TRUE])
      ELSE IF details.value.is_none
        THEN [r EXCEPT !.sess = sess1, !.i = @ + 1, !.step = entry3]
      ELSE Reconcile(r, sess1, content, details.value.dict, now,
                     [entry3 EXCEPT !.classified = TRUE])

\* the number of records of the ledger for a message id
Recorded(store, msg_id) ==
  Cardinality({k \in DOMAIN store.ledger : store.ledger[k].message_id = msg_id})

\* the Applications of a user that have a thread id, the empty one excepted
OfThread(store, thread_id, user_id) ==
  {k \in DOMAIN store.apps :
     /\ thread_id # ""
     /\ store.apps[k].email_thread_id = thread_id
     /\ store.apps[k].user_id = user_id}

\* the trace of a pass: r before it, q after it
Observe(r, q) ==
  LET msg  == MessageOf(r.messages[r.i].id)
      had  == OfThread(r.sess, msg.threadId, r.user)
      app  == IF had = {} THEN 0 ELSE CHOOSE k \in had : \A j \in had : k <= j
      went == q.pc = "loop"
  IN  [q EXCEPT !.step.existing = Recorded(r.sess, msg.id) > 0,
                !.step.wrote = went /\ q.sess # r.sess,
                !.step.counted = /\ went
                                 /\ \/ q.new_applications # r.new_applications
                                    \/ q.updated_applications # r.updated_applications,
                !.step.matched = app,
                !.step.was = IF app = 0 THEN "-" ELSE r.sess.apps[app].status,
                !.step.d_ledger = IF went THEN Len(q.sess.ledger) - Len(r.sess.ledger) ELSE 0,
                !.step.d_apps = IF went THEN Len(q.sess.apps) - Len(r.sess.apps) ELSE 0,
                !.step.d_changes =
                  IF went THEN Len(q.sess.changes) - Len(r.sess.changes) ELSE 0,
                !.step.d_new = IF went THEN q.new_applications - r.new_applications ELSE 0,
                !.step.d_updated =
                  IF went THEN q.updated_applications - r.updated_applications ELSE 0,
                !.step.modified =
                  went /\ \E k \in DOMAIN r.sess.apps : q.sess.apps[k] # r.sess.apps[k]]

\* a pass of the loop that commits what it wrote
CommitEachPass(store, r) == IF r.pc = "loop" THEN r.sess ELSE store

\* the committed store after a pass of the loop: the loop body does not commit
StoreAfterLoopBody(store, r) == store

\* the installations the model starts from: nothing configured; an expired token;
\* a token that cannot be used or refreshed, next to the client secrets file
GmailStates ==
  {[token |-> "absent", creds_file |-> FALSE, service |-> FALSE],
   [token |-> "expired", creds_file |-> TRUE, service |-> FALSE],
   [token |-> "unusable", creds_file |-> TRUE, service |-> FALSE]}

NoLast == [user |-> NoUser, messages |-> <<>>, unavailable |-> {}]

Init ==
  /\ gmail \in GmailStates
  /\ client \in BOOLEAN
  /\ clock = 0
  /\ db = EmptyStore
  /\ run = IdleRun
  /\ runs = 0
  /\ last = NoLast
  /\ call = NoCallYet
  /\ resumes = <<>>
  /\ pair = NoPair

\* a message arrives (between two requests)
Deliver ==
  /\ run.pc = "idle"
  /\ clock < Len(MAIL)
  /\ clock' = clock + 1
  /\ last' = NoLast
  /\ UNCHANGED <<gmail, client, db, run, runs, call, resumes, pair>>

\* sync.py:69: get_current_user raises HTTPException(303) when nobody is logged in
RunSyncNoUser ==
  /\ run.pc = "idle"
  /\ run' = [IdleRun EXCEPT !.pc = "done", !.outcome = "login", !.base = db, !.sess = db]
  /\ UNCHANGED <<gmail, client, clock, db, runs, last, call, resumes, pair>>

\* sync.py:71-72: the mail source is not configured
RunSyncNotConfigured(u, hours) ==
  /\ run.pc = "idle"
  /\ ~is_configured(gmail)
  /\ run' = [IdleRun EXCEPT !.pc = "done", !.user = u,
                            !.outcome = "error=gmail", !.base = db, !.sess = db]
  /\ UNCHANGED <<gmail, client, clock, db, runs, last, call, resumes, pair>>

\* sync.py:75-83: authenticate, then fetch the message list or report error=auth
RunSyncStart(u, hours, refresh_ok, flow_ok, build_ok, failing) ==
  /\ run.pc = "idle"
  /\ runs < MaxRuns
  /\ is_configured(gmail)
  /\ LET a == authenticate(gmail, refresh_ok, flow_ok, build_ok)
     IN  /\ gmail' = a.g
         /\ runs' = IF a.ok THEN runs + 1 ELSE runs
         /\ run' = IF ~a.ok
                   THEN [IdleRun EXCEPT !.pc = "done", !.user = u,
                                        !.outcome = "error=auth", !.base = db,
                                        !.sess = db]
                   ELSE [IdleRun EXCEPT
                           !.pc = "loop", !.user = u, !.base = db,
                           !.sess = db,
                           !.messages = fetch_messages(clock, hours, DefaultMaxResults,
                                                       GMAIL_LABELS, failing)]
  /\ UNCHANGED <<client, clock, db, last, call, resumes, pair>>

\* sync.py:85-181: one pass of the loop
ProcessMessage ==
  /\ run.pc = "loop"
  /\ run.i <= Len(run.messages)
  /\ \E http_error \in BOOLEAN :
       LET c    == get_message_content(gmail, run.messages[run.i].id, http_error)
           seen == LedgerHas(run.sess, run.messages[run.i].id)
           asks == ~seen /\ ~c.empty /\ AsksModelOf[client][run.messages[run.i].id]
       IN  \E rel_beh \in IF asks THEN RelBehaviours ELSE {NoCall} :
             LET calls == /\ ~seen /\ ~c.empty /\ client
                          /\ IsJobRelatedOf[client][run.messages[run.i].id][rel_beh].value
             IN  \E ext_beh \in IF calls THEN ExtBehavioursFor(run.messages[run.i].id)
                                  ELSE {NoCall} :
                   /\ run' = Observe(run, LoopBody(run, db, gmail, client, clock,
                                                   http_error, rel_beh, ext_beh))
                   /\ db' = StoreAfterLoopBody(db, run')
  /\ UNCHANGED <<gmail, client, clock, runs, last, call, resumes, pair>>

\* a redirect that reports the size of the batch as the number of new Applications
ResponseOfFetched(r) ==
  ("success" :> 1) @@ ("new" :> Len(r.messages)) @@ ("updated" :> r.updated_applications)

\* sync.py:185-188: the query of the redirect, /sync/?success=1&new=..&updated=..
SuccessResponse(r) ==
  ("success" :> 1) @@ ("new" :> r.new_applications)
  @@ ("updated" :> r.updated_applications)

\* sync.py:183-188: commit and report the counters
Commit ==
  /\ run.pc = "loop"
  /\ run.i > Len(run.messages)
  /\ db' = run.sess
  /\ run' = [run EXCEPT !.pc = "done", !.outcome = "success",
                        !.response = SuccessResponse(run),
                        !.repeat = /\ last.user = run.user
                                   /\ last.messages = run.messages
                                   /\ last.unavailable = run.unavailable]
  /\ last' = [user |-> run.user, messages |-> run.messages,
              unavailable |-> run.unavailable]
  /\ UNCHANGED <<gmail, client, clock, runs, call, resumes, pair>>

\* the request dies in the loop or at the commit (an error of the mail client other than
\* HttpError, a database error, the process is killed): the session is never committed
Abort ==
  /\ run.pc = "loop"
  /\ run' = Failed(run, db, run.step)
  /\ UNCHANGED <<gmail, client, clock, db, runs, last, call, resumes, pair>>

\* the response is sent; the next request can come
Finish ==
  /\ run.pc = "done"
  /\ run' = IdleRun
  /\ UNCHANGED <<gmail, client, clock, db, runs, last, call, resumes, pair>>

Next ==
  \/ Deliver
  \/ RunSyncNoUser
  \/ \E u \in Users, hours \in 1..MaxHours : RunSyncNotConfigured(u, hours)
  \/ \E u \in Users, hours \in 1..MaxHours,
        refresh_ok \in IF gmail.token = "expired" THEN BOOLEAN ELSE {TRUE},
        flow_ok \in IF gmail.token \in {"absent", "unusable"} THEN BOOLEAN ELSE {TRUE},
        build_ok \in BOOLEAN,
        failing \in {{}, {GMAIL_LABELS[1]}} :
       RunSyncStart(u, hours, refresh_ok, flow_ok, build_ok, failing)
  \/ ProcessMessage
  \/ Commit
  \/ Abort
  \/ Finish

Spec == Init /\ [][Next]_vars


----------------------------------------------------------------------------
(* The classifiers and the status mapping, one call at a time *)

\* the From headers the functions are called with: a role address, a private address,
\* a display name, an address at a job board, local parts that end and that start with
\* a role, an address in a sub-domain, a role as the display name of a webmail address
SENDERS ==
  {<<"c","a","r","e","e","r","s","@","a","c","m","e",".","c","o","m">>,
   <<"b","o","b","@","e","x","a","m","p","l","e",".","c","o","m">>,
   <<"A","c","m","e"," ","C","o","r","p"," ","<","j","a","n","e","@","a","c","m","e",".","c","o","m",">">>,
   <<"b","o","b","@","l","i","n","k","e","d","i","n",".","c","o","m">>,
   <<"b","o","b","h","r","@","e","x","a","m","p","l","e",".","c","o","m">>,
   <<"h","r","-","t","e","a","m","@","e","x","a","m","p","l","e",".","c","o","m">>,
   <<"j","o","b","s","@","m","a","i","l",".","a","c","m","e",".","c","o","m">>,
   <<"H","R"," ","<","b","o","b","@","g","m","a","i","l",".","c","o","m",">">>}

\* the subjects: without a keyword, with a subject keyword, with the start of a body keyword
SUBJECTS ==
  {<<"H","e","l","l","o">>,
   <<"I","n","t","e","r","v","i","e","w"," ","i","n","v","i","t","a","t","i","o","n">>,
   <<"T","h","a","n","k"," ","y","o","u"," ","f","o","r"," ","y","o","u","r">>}

\* the snippets and bodies: with no, one and two body keywords, and with the end of one
TEXTS ==
  {<<>>,
   <<"s","e","e"," ","y","o","u"," ","a","t"," ","l","u","n","c","h">>,
   <<"u","n","f","o","r","t","u","n","a","t","e","l","y"," ","w","e"," ","a","r","e"," ","b","u","s","y">>,
   <<"u","n","f","o","r","t","u","n","a","t","e","l","y"," ","t","h","e"," ","p","o","s","i","t","i","o","n"," ","h","a","s"," ","b","e","e","n"," ","f","i","l","l","e","d">>,
   <<"i","n","t","e","r","e","s","t"," ","a","n","d"," ","y","o","u","r"," ","s","t","a","r","t"," ","d","a","t","e">>}

\* the texts detect_status is called with: phrases of no, of one and of two categories,
\* in either case, and the two patterns with a gap at and beyond its limits
CONTENTS ==
  {<<>>,
   <<"s","e","e"," ","y","o","u"," ","a","t"," ","l","u","n","c","h">>,
   <<"U","n","f","o","r","t","u","n","a","t","e","l","y"," ","w","e"," ","c","a","n","n","o","t"," ","s","c","h","e","d","u","l","e"," ","a","n"," ","i","n","t","e","r","v","i","e","w">>,
   <<"w","e"," ","w","o","u","l","d"," ","l","i","k","e"," ","t","o"," ","s","c","h","e","d","u","l","e"," ","a"," ","p","h","o","n","e"," ","s","c","r","e","e","n">>,
   <<"a"," ","q","u","i","c","k"," ","c","h","a","t"," ","a","b","o","u","t"," ","y","o","u","r"," ","s","t","a","r","t"," ","d","a","t","e">>,
   <<"p","l","e","a","s","e","d"," ","t","o"," ","o","f","f","e","r",":"," ","w","e"," ","r","e","c","e","i","v","e","d"," ","y","o","u","r"," ","a","p","p","l","i","c","a","t","i","o","n">>,
   <<"T","h","a","n","k"," ","y","o","u"," ","f","o","r"," ","a","p","p","l","y","i","n","g">>,
   <<"I","n","t","e","r","v","i","e","w","\n","s","c","h","e","d","u","l","e","d">>,
   <<"i","n","t","e","r","v","i","e","w"," ","i","s"," ","s","c","h","e","d","u","l","e","d">>,
   <<"s","c","h","e","d","u","l","e"," "," "," "," "," "," "," "," "," "," "," "," "," "," "," "," "," "," "," "," ","i","n","t","e","r","v","i","e","w">>,
   <<"s","c","h","e","d","u","l","e"," "," "," "," "," "," "," "," "," "," "," "," "," "," "," "," "," "," "," "," "," ","i","n","t","e","r","v","i","e","w">>,
   <<"Y","o","u"," ","w","e","r","e"," ","R","E","J","E","C","T","E","D">>}

\* what the model client may do when it is asked whether a message is job-related
RelatednessReplies ==
  {Reply(<<"Y","e","s">>),
   Reply(<<" ","Y","E","S","\n">>),
   Reply(<<"Y","e","s",".">>),
   Reply(<<"N","o">>),
   Reply(<<>>),
   NullReply} \cup {Raises(e) : e \in ExceptionClasses}

\* what the model client may do when it is asked for the details
ExtractionReplies ==
  {Reply(<<"N","O","T","_","J","O","B","_","E","M","A","I","L">>),
   Reply(<<" ","N","O","T","_","J","O","B","_","E","M","A","I","L","\n">>),
   Reply(<<"C","o","m","p","a","n","y",":"," ","A","c","m","e","\n","J","o","b"," ","T","i","t","l","e",":"," ","E","n","g","i","n","e","e","r","\n","L","o","c","a","t","i","o","n",":"," ","R","e","m","o","t","e","\n","S","t","a","t","u","s",":"," ","I","n","t","e","r","v","i","e","w","i","n","g">>),
   Reply(<<"C","o","m","p","a","n","y",":"," ","A","c","m","e","\n","S","t","a","t","u","s",":"," ","R","e","j","e","c","t","e","d"," ","b","y"," ","t","h","e"," ","t","e","a","m">>),
   Reply(<<"c","o","m","p","a","n","y"," ",":"," ","A","c","m","e","\n","S","t","a","t","u","s",":"," ","P","e","n","d","i","n","g">>),
   Reply(<<"C","o","m","p","a","n","y",":","\n","S","t","a","t","u","s",":"," ","O","f","f","e","r">>),
   Reply(<<"J","o","b"," ","T","i","t","l","e",":"," ","E","n","g","i","n","e","e","r","\n","S","t","a","t","u","s",":"," ","O","f","f","e","r">>),
   Reply(<<"I"," ","c","a","n","n","o","t"," ","t","e","l","l">>),
   Reply(<<"C","o","m","p","a","n","y",":"," ","A","c","m","e","\n","S","t","a","t","u","s",":"," ","A","p","p","l","i","e","d">>),
   Reply(<<"C","o","m","p","a","n","y",":"," ","A","c","m","e","\n","S","t","a","t","u","s",":"," ","S","C","R","E","E","N","I","N","G">>),
   Reply(<<"C","o","m","p","a","n","y",":"," ","A","c","m","e","\n","S","t","a","t","u","s",":"," ","i","n","t","e","r","v","i","e","w","i","n","g">>),
   Reply(<<"C","o","m","p","a","n","y",":"," ","A","c","m","e","\n","S","t","a","t","u","s",":"," ","O","f","f","e","r">>),
   Reply(<<"C","o","m","p","a","n","y",":"," ","A","c","m","e","\n","S","t","a","t","u","s",":"," ","d","E","c","L","i","N","e","D">>),
   Reply(<<"C","o","m","p","a","n","y",":"," ","A","c","m","e","\n","S","t","a","t","u","s",":"," ","W","i","t","h","d","r","a","w","n">>),
   Reply(<<"C","o","m","p","a","n","y",":"," ","A","c","m","e","\n","S","t","a","t","u","s",":"," ","R","e","j","e","c","t","e","d">>),
   NullReply} \cup {Raises(e) : e \in ExceptionClasses}

\* the status strings of the classifications the mapping is called with
STATUS_STRINGS ==
  {<<"a","p","p","l","i","e","d">>,
   <<"S","c","r","e","e","n","i","n","g">>,
   <<"I","N","T","E","R","V","I","E","W","I","N","G">>,
   <<"o","f","f","e","r">>,
   <<"D","e","c","l","i","n","e","d">>,
   <<"w","i","t","h","d","r","a","w","n">>,
   <<"r","e","j","e","c","t","e","d">>,
   <<"p","e","n","d","i","n","g">>,
   <<"A","c","c","e","p","t","e","d">>,
   <<"o","f","f","e","r"," ">>,
   <<>>}

\* the classifications the mapping is called with: without a status, and with each
\* of the status strings
CLASSIFICATIONS ==
  {(K_company :> <<"A","c","m","e">>)}
  \cup {(K_company :> <<"A","c","m","e">>) @@ (K_status :> s) : s \in STATUS_STRINGS}

InitClassifier ==
  /\ gmail = [token |-> "absent", creds_file |-> FALSE, service |-> FALSE]
  /\ client \in BOOLEAN
  /\ clock = 0
  /\ db = EmptyStore
  /\ run = IdleRun
  /\ runs = 0
  /\ last = NoLast
  /\ call = NoCallYet
  /\ resumes = <<>>
  /\ pair = NoPair

\* sync.py:126-127 on its own
CallMapStatus(details) ==
  /\ call = NoCallYet
  /\ call' = [fn |-> "MapStatus", details |-> details, result |-> MapStatus(details)]
  /\ UNCHANGED <<gmail, client, clock, db, run, runs, last, resumes, pair>>

\* KeywordClassifier.is_job_related(sender, subject, snippet)
CallKeywordIsJobRelated(sender, subject, snippet) ==
  /\ call = NoCallYet
  /\ call' = [fn |-> "KeywordClassifier.is_job_related", sender |-> sender,
              subject |-> subject, snippet |-> snippet,
              result |-> KW_is_job_related(sender, subject, snippet)]
  /\ UNCHANGED <<gmail, client, clock, db, run, runs, last, resumes, pair>>

\* classifier.is_job_related(sender, subject, snippet); beh is what the model client
\* does if it is asked; requests counts the requests it gets
CallIsJobRelated(sender, subject, snippet, beh) ==
  /\ call = NoCallYet
  /\ call' = [fn |-> "EmailClassifier.is_job_related", sender |-> sender,
              subject |-> subject, snippet |-> snippet, beh |-> beh,
              requests |-> IF EC_is_job_related_asks(client, sender, subject, snippet)
                           THEN 1 ELSE 0,
              result |-> EC_is_job_related(client, sender, subject, snippet, beh)]
  /\ UNCHANGED <<gmail, client, clock, db, run, runs, last, resumes, pair>>

\* classifier.classify_email(sender, subject, body); beh is what the model client does
\* if it is asked; requests counts the requests it gets
CallClassifyEmail(sender, subject, body, beh) ==
  /\ call = NoCallYet
  /\ call' = [fn |-> "EmailClassifier.classify_email", sender |-> sender,
              subject |-> subject, body |-> body, beh |-> beh,
              requests |-> IF EC_classify_email_asks(client) THEN 1 ELSE 0,
              result |-> EC_classify_email(client, sender, subject, body, beh)]
  /\ UNCHANGED <<gmail, client, clock, db, run, runs, last, resumes, pair>>

\* KeywordClassifier.detect_status(content)
CallDetectStatus(content) ==
  /\ call = NoCallYet
  /\ call' = [fn |-> "KeywordClassifier.detect_status", content |-> content,
              result |-> KW_detect_status(content)]
  /\ UNCHANGED <<gmail, client, clock, db, run, runs, last, resumes, pair>>

\* KeywordClassifier.extract_company(sender, subject, body)
CallExtractCompany(sender, subject, body) ==
  /\ call = NoCallYet
  /\ call' = [fn |-> "KeywordClassifier.extract_company", sender |-> sender,
              subject |-> subject, body |-> body,
              result |-> KW_extract_company(sender, subject, body)]
  /\ UNCHANGED <<gmail, client, clock, db, run, runs, last, resumes, pair>>

\* KeywordClassifier.classify_email(sender, subject, body)
CallKeywordClassifyEmail(sender, subject, body) ==
  /\ call = NoCallYet
  /\ call' = [fn |-> "KeywordClassifier.classify_email", sender |-> sender,
              subject |-> subject, body |-> body,
              result |-> KW_classify_email(sender, subject, body)]
  /\ UNCHANGED <<gmail, client, clock, db, run, runs, last, resumes, pair>>

\* gmail_service.fetch_messages(since_hours, max_results) at tick now; the list calls
\* of the labels in failing raise HttpError
CallFetchMessages(now, since_hours, max_results, failing) ==
  /\ call = NoCallYet
  /\ call' = [fn |-> "GmailService.fetch_messages", now |-> now,
              since_hours |-> since_hours, max_results |-> max_results,
              failing |-> failing,
              result |-> fetch_messages(now, since_hours, max_results,
                                        GMAIL_LABELS, failing)]
  /\ UNCHANGED <<gmail, client, clock, db, run, runs, last, resumes, pair>>

\* the call returns
Return ==
  /\ call # NoCallYet
  /\ call' = NoCallYet
  /\ UNCHANGED <<gmail, client, clock, db, run, runs, last, resumes, pair>>

NextClassifier ==
  \/ \E details \in CLASSIFICATIONS : CallMapStatus(details)
  \/ \E sender \in SENDERS, subject \in SUBJECTS, snippet \in TEXTS :
       CallKeywordIsJobRelated(sender, subject, snippet)
  \/ \E sender \in SENDERS, subject \in SUBJECTS, snippet \in TEXTS,
        beh \in IF client THEN RelatednessReplies ELSE {NoCall} :
       CallIsJobRelated(sender, subject, snippet, beh)
  \/ \E sender \in SENDERS, subject \in SUBJECTS, body \in TEXTS,
        beh \in IF client THEN ExtractionReplies ELSE {NoCall} :
       CallClassifyEmail(sender, subject, body, beh)
  \/ \E content \in CONTENTS : CallDetectStatus(content)
  \/ \E sender \in SENDERS, subject \in SUBJECTS, body \in TEXTS :
       CallExtractCompany(sender, subject, body)
  \/ \E sender \in SENDERS, subject \in SUBJECTS, body \in TEXTS :
       CallKeywordClassifyEmail(sender, subject, body)
  \/ \E now \in 0..Len(MAIL), since_hours \in 1..MaxHours,
        max_results \in {1, DefaultMaxResults},
        failing \in SUBSET {GMAIL_LABELS[k] : k \in DOMAIN GMAIL_LABELS} :
       CallFetchMessages(now, since_hours, max_results, failing)
  \/ Return

SpecClassifier == InitClassifier /\ [][NextClassifier]_vars

----------------------------------------------------------------------------
(* One request to /sync/run, from its start to its response *)

\* a configured installation, a mailbox with the first messages of MAIL, nothing stored
InitRun ==
  /\ gmail \in {g \in GmailStates : is_configured(g)}
  /\ client \in BOOLEAN
  /\ clock \in 0..Len(MAIL)
  /\ db = EmptyStore
  /\ run = IdleRun
  /\ runs = 0
  /\ last = NoLast
  /\ call = NoCallYet
  /\ resumes = <<>>
  /\ pair = NoPair

NextRun ==
  \/ /\ runs = 0
     /\ \E u \in Users, hours \in 1..MaxHours,
           refresh_ok \in IF gmail.token = "expired" THEN BOOLEAN ELSE {TRUE},
           flow_ok \in IF gmail.token \in {"absent", "unusable"} THEN BOOLEAN ELSE {TRUE},
           build_ok \in BOOLEAN,
           failing \in {{}, {GMAIL_LABELS[1]}} :
          RunSyncStart(u, hours, refresh_ok, flow_ok, build_ok, failing)
  \/ ProcessMessage
  \/ Commit
  \/ Abort
  \/ Finish

\* the handler is sequential code: a pass of the loop that can be made is made, and the
\* commit after the loop is reached; nothing obliges the request to be killed
SpecRun ==
  InitRun /\ [][NextRun]_vars /\ WF_vars(ProcessMessage) /\ WF_vars(Commit)

----------------------------------------------------------------------------
(* The resumes of the users (routers/resumes.py) *)

MaxResumes == 3

\* resumes.py:80
allowed_extensions == {".pdf", ".doc", ".docx"}

\* the extensions of the files that are uploaded
FILE_EXTENSIONS == {".pdf", ".txt"}

\* an update that clears the default flag of every user's resumes
UnsetDefaultsOfAll(rows, user_id) ==
  [k \in DOMAIN rows |->
     IF rows[k].present /\ rows[k].is_default
     THEN [rows[k] EXCEPT !.is_default = FALSE] ELSE rows[k]]

\* resumes.py:100-103, 154-157: db.query(Resume).filter(Resume.user_id == user.id,
\* Resume.is_default == True).update({"is_default": False})
UnsetDefaults(rows, user_id) ==
  [k \in DOMAIN rows |->
     IF rows[k].present /\ rows[k].user_id = user_id /\ rows[k].is_default
     THEN [rows[k] EXCEPT !.is_default = FALSE] ELSE rows[k]]

\* db.query(Resume).filter(Resume.id == resume_id, Resume.user_id == user.id).first()
FindResume(rows, resume_id, user_id) ==
  /\ resume_id \in DOMAIN rows
  /\ rows[resume_id].present
  /\ rows[resume_id].user_id = user_id

\* a row that was deleted: its id is not given to another row
Deleted == [user_id |-> NoUser, is_default |-> FALSE, present |-> FALSE]

InitResumes ==
  /\ gmail = [token |-> "absent", creds_file |-> FALSE, service |-> FALSE]
  /\ client = FALSE
  /\ clock = 0
  /\ db = EmptyStore
  /\ run = IdleRun
  /\ runs = 0
  /\ last = NoLast
  /\ call = NoCallYet
  /\ resumes = <<>>
  /\ pair = NoPair

\* POST /resumes/upload (resumes.py:68-116): 303 to the login page without a user, 400
\* for a file of another type, else the user's defaults are cleared when the new
\* resume is to be the default, and the row is added
upload_resume(u, file_ext, is_default) ==
  /\ Len(resumes) < MaxResumes
  /\ resumes' =
       IF u = NoUser \/ file_ext \notin allowed_extensions THEN resumes
       ELSE Append(IF is_default THEN UnsetDefaults(resumes, u) ELSE resumes,
                   [user_id |-> u, is_default |-> is_default, present |-> TRUE])
  /\ UNCHANGED <<gmail, client, clock, db, run, runs, last, call, pair>>

\* POST /resumes/{resume_id}/default (resumes.py:141-163): 404 when the user has no
\* such resume, else the user's defaults are cleared and the resume is made the default
set_default(u, resume_id) ==
  /\ resumes' =
       IF u = NoUser \/ ~FindResume(resumes, resume_id, u) THEN resumes
       ELSE [UnsetDefaults(resumes, u) EXCEPT ![resume_id].is_default = TRUE]
  /\ UNCHANGED <<gmail, client, clock, db, run, runs, last, call, pair>>

\* POST /resumes/{resume_id}/delete (resumes.py:166-192): 404 when the user has no such
\* resume, else the row is deleted; the Applications of the user that name the resume
\* are cleared of it (no Application the store of this model holds names a resume)
delete_resume(u, resume_id) ==
  /\ resumes' =
       IF u = NoUser \/ ~FindResume(resumes, resume_id, u) THEN resumes
       ELSE [resumes EXCEPT ![resume_id] = Deleted]
  /\ UNCHANGED <<gmail, client, clock, db, run, runs, last, call, pair>>

NextResumes ==
  \/ \E u \in Users \cup {NoUser}, file_ext \in FILE_EXTENSIONS, is_default \in BOOLEAN :
       upload_resume(u, file_ext, is_default)
  \/ \E u \in Users \cup {NoUser}, resume_id \in 1..MaxResumes : set_default(u, resume_id)
  \/ \E u \in Users \cup {NoUser}, resume_id \in 1..MaxResumes : delete_resume(u, resume_id)

SpecResumes == InitResumes /\ [][NextResumes]_vars

----------------------------------------------------------------------------
(* Two requests of one user to /sync/run served at once by two server processes that
   share the database. Each has its own session: its queries read the committed rows and the
   rows the session itself has written, and its commit writes all of them or, when a
   ProcessedEmail it adds has the message id of a committed one, none *)

\* the other of the two requests
Peer(x) == IF x = "a" THEN "b" ELSE "a"

\* the session of r as its next query finds it: the committed rows of store, with the
\* rows r has changed as r left them, followed by the rows r has added; an Application
\* that r added follows the committed ones, and the StatusChange rows of r name it there
Refresh(r, store) ==
  LET had     == Len(r.base.apps)
      shift   == Len(store.apps) - had
      added(s, n) == SubSeq(s, n + 1, Len(s))
      kept    == [k \in DOMAIN store.apps |->
                    IF k <= had /\ r.sess.apps[k] # r.base.apps[k]
                    THEN r.sess.apps[k] ELSE store.apps[k]]
      moved   == [k \in DOMAIN added(r.sess.changes, Len(r.base.changes)) |->
                    LET c == added(r.sess.changes, Len(r.base.changes))[k]
                    IN  IF c.application_id > had
                        THEN [c EXCEPT !.application_id = @ + shift] ELSE c]
  IN  [r EXCEPT !.base = store,
                !.sess = [ledger  |-> store.ledger
                                        \o added(r.sess.ledger, Len(r.base.ledger)),
                          apps    |-> kept \o added(r.sess.apps, had),
                          changes |-> store.changes \o moved]]

\* a ProcessedEmail the session added has the message id of a committed one
UniqueViolation(r, store) ==
  \E k \in DOMAIN r.sess.ledger :
    /\ k > Len(r.base.ledger)
    /\ \E j \in DOMAIN store.ledger :
         store.ledger[j].message_id = r.sess.ledger[k].message_id

\* the request is over: what its session held is gone
Ended(r, outcome) ==
  [IdleRun EXCEPT !.pc = "done", !.user = r.user, !.messages = r.messages,
                  !.outcome = outcome,
                  !.new_applications = r.new_applications,
                  !.updated_applications = r.updated_applications]

\* an installation with a token and a service; the messages of thread t1 and the one
\* between them have arrived
InitPair ==
  /\ gmail = [token |-> "valid", creds_file |-> TRUE, service |-> TRUE]
  /\ client \in BOOLEAN
  /\ clock = 3
  /\ db = EmptyStore
  /\ run = IdleRun
  /\ runs = 0
  /\ last = NoLast
  /\ call = NoCallYet
  /\ resumes = <<>>
  /\ pair = [a |-> IdleRun, b |-> IdleRun, overlapped |-> FALSE]

\* the user of the two requests
PairUser == "u1"

\* sync.py:62-83 for request x: the message list is fetched
PairStart(x, hours, failing) ==
  /\ pair[x].pc = "idle"
  /\ is_configured(gmail)
  /\ authenticate(gmail, TRUE, TRUE, TRUE).ok
  /\ pair' = [pair EXCEPT
                ![x] = [IdleRun EXCEPT
                          !.pc = "loop", !.user = PairUser, !.base = db, !.sess = db,
                          !.messages = fetch_messages(clock, hours, DefaultMaxResults,
                                                      GMAIL_LABELS, failing)],
                !.overlapped = @ \/ pair[Peer(x)].pc = "loop"]
  /\ UNCHANGED <<gmail, client, clock, db, run, runs, last, call, resumes>>

\* sync.py:85-181 for request x: one pass of the loop
PairProcessMessage(x) ==
  /\ pair[x].pc = "loop"
  /\ pair[x].i <= Len(pair[x].messages)
  /\ LET r == Refresh(pair[x], db)
     IN  IF UniqueViolation(r, db)
         THEN pair' = [pair EXCEPT ![x] = Ended(r, "exception")]
         ELSE \E http_error \in BOOLEAN :
                LET id   == r.messages[r.i].id
                    c    == get_message_content(gmail, id, http_error)
                    seen == LedgerHas(r.sess, id)
                    asks == ~seen /\ ~c.empty /\ AsksModelOf[client][id]
                IN  \E rel_beh \in IF asks THEN RelBehaviours ELSE {NoCall} :
                      LET calls == /\ ~seen /\ ~c.empty /\ client
                                   /\ IsJobRelatedOf[client][id][rel_beh].value
                      IN  \E ext_beh \in IF calls THEN ExtBehaviours ELSE {NoCall} :
                            LET q == LoopBody(r, db, gmail, client, clock,
                                              http_error, rel_beh, ext_beh)
                            IN  pair' = [pair EXCEPT
                                           ![x] = IF q.pc = "loop"
                                                  THEN [q EXCEPT !.step = NoStep]
                                                  ELSE Ended(r, "exception")]
  /\ UNCHANGED <<gmail, client, clock, db, run, runs, last, call, resumes>>

\* sync.py:183-188 for request x: the commit, or the error of the unique key
PairCommit(x) ==
  /\ pair[x].pc = "loop"
  /\ pair[x].i > Len(pair[x].messages)
  /\ LET r == Refresh(pair[x], db)
     IN  IF UniqueViolation(r, db)
         THEN /\ pair' = [pair EXCEPT ![x] = Ended(r, "exception")]
              /\ db' = db
         ELSE /\ pair' = [pair EXCEPT ![x] = Ended(r, "success")]
              /\ db' = r.sess
  /\ UNCHANGED <<gmail, client, clock, run, runs, last, call, resumes>>

NextPair ==
  \/ \E x \in {"a", "b"}, hours \in 1..MaxHours, failing \in {{}, {GMAIL_LABELS[1]}} :
       PairStart(x, hours, failing)
  \/ \E x \in {"a", "b"} : PairProcessMessage(x)
  \/ \E x \in {"a", "b"} : PairCommit(x)

SpecPair == InitPair /\ [][NextPair]_vars

----------------------------------------------------------------------------
(* The pipeline contract *)

\* the stores a property of stored state is checked in: the committed one and the
\* session of the run in progress
Stores == {db, run.sess}

Committed == run.pc = "done" /\ run.outcome = "success"

BatchIds(r) == {r.messages[k].id : k \in DOMAIN r.messages}

\* the StatusChange rows of an Application, in insertion order
RECURSIVE ChangesOf(_, _, _)
ChangesOf(store, a, k) ==
  IF k > Len(store.changes) THEN <<>>
  ELSE (IF store.changes[k].application_id = a THEN <<store.changes[k]>> ELSE <<>>)
       \o ChangesOf(store, a, k + 1)

\* C1: a run that commits over the batch of the run that committed last, for the same
\* user and with the same content (the same messages without content), leaves the
\* store as it found it, and both of its counters are 0
C1_Idempotent ==
  (Committed /\ run.repeat) =>
    /\ db = run.base
    /\ run.new_applications = 0
    /\ run.updated_applications = 0

\* a second run over a batch of two or more messages that had produced Applications
C1_Witness ==
  /\ Committed /\ run.repeat
  /\ Len(run.messages) >= 2
  /\ \E k \in DOMAIN db.apps : db.apps[k].user_id = run.user
  /\ \E id \in BatchIds(run) : Recorded(db, id) = 1

\* C2: there is at most one Application per user and non-empty thread id
C2_OnePerThread ==
  \A store \in Stores : \A j, k \in DOMAIN store.apps :
    ( /\ store.apps[j].email_thread_id # ""
      /\ store.apps[j].email_thread_id = store.apps[k].email_thread_id
      /\ store.apps[j].user_id = store.apps[k].user_id ) => j = k

\* two messages of one thread were classified for one user, and one Application holds
\* the thread
C2_Witness ==
  /\ Committed
  /\ \E k \in DOMAIN db.apps : db.apps[k].email_thread_id = "t1"
  /\ \E j, k \in DOMAIN db.ledger :
       /\ db.ledger[j].message_id = "m1" /\ db.ledger[j].is_job_related
       /\ db.ledger[k].message_id = "m3" /\ db.ledger[k].is_job_related
  /\ run.step.id = "m1" /\ run.step.classified /\ run.step.created = 0

\* C3: the StatusChange rows of each Application form a chain: the first has no old
\* status, each later one starts from the status the one before it ended in, no row
\* repeats a status, and the last ends in the status of the Application
C3_StatusChain ==
  \A store \in Stores : \A a \in DOMAIN store.apps :
    LET rows == ChangesOf(store, a, 1)
    IN  /\ Len(rows) >= 1
        /\ rows[1].old_status = "None"
        /\ \A k \in 2..Len(rows) : rows[k].old_status = rows[k - 1].new_status
        /\ \A k \in 1..Len(rows) : rows[k].old_status # rows[k].new_status
        /\ rows[Len(rows)].new_status = store.apps[a].status

\* a committed Application whose status changed after its creation
C3_Witness ==
  /\ Committed
  /\ \E a \in DOMAIN db.apps : Len(ChangesOf(db, a, 1)) >= 2

\* C4 as stated: after the commit every id of the batch has exactly one record
C4_EveryIdRecorded ==
  Committed => \A id \in BatchIds(run) : Recorded(db, id) = 1

\* C4: no id has more than one record; after the commit every id of the batch whose
\* content was not missing has exactly one record, whatever its relatedness, and an id
\* whose content was missing has none
C4_OncePerFetchedId ==
  /\ \A store \in Stores : \A id \in MessageIds : Recorded(store, id) <= 1
  /\ Committed =>
       \A id \in BatchIds(run) :
         Recorded(db, id) = IF id \in run.unavailable THEN 0 ELSE 1

\* a committed batch with a message without content, a message recorded as unrelated
\* and a message that an earlier run recorded
C4_Witness ==
  /\ Committed
  /\ run.unavailable # {}
  /\ \E k \in DOMAIN db.ledger :
       db.ledger[k].message_id \in BatchIds(run) /\ ~db.ledger[k].is_job_related
  /\ \E id \in BatchIds(run) : Recorded(run.base, id) = 1

\* C5: while a run is in its loop and after it failed, the committed store is the one
\* the run started from; after it committed, the committed store is the whole session
C5_Atomic ==
  /\ run.pc = "loop" => db = run.base
  /\ (run.pc = "done" /\ run.outcome = "exception") => db = run.base
  /\ Committed => db = run.sess

\* a run failed after a pass that created an Application, and the store has none
C5_Witness ==
  /\ run.pc = "done" /\ run.outcome = "exception"
  /\ run.step.created # 0 /\ run.step.marked
  /\ db.apps = <<>> /\ db.ledger = <<>>

\* C6: a pass for a message that has a record in the ledger asks for no content, calls
\* no classifier, writes nothing and leaves the counters alone
C6_ProcessedSkipped ==
  run.step.existing =>
    /\ ~run.step.fetched /\ ~run.step.got
    /\ run.step.rel = "-" /\ run.step.ext = "-"
    /\ ~run.step.marked /\ ~run.step.classified
    /\ run.step.change = 0 /\ run.step.created = 0
    /\ ~run.step.wrote /\ ~run.step.counted

\* a pass over a recorded message in a run that had created an Application
C6_Witness ==
  /\ run.pc = "loop"
  /\ run.step.existing
  /\ run.new_applications > 0

\* everything the model client may do when it is called
ClientBehaviours ==
  RelBehaviours \cup ExtBehaviours \cup {Raises(e) : e \in ExceptionClasses}

\* EmailClassifier.is_job_related and EmailClassifier.classify_email return a value for
\* every message of the mailbox and everything the model client may do
ClassifierReturns ==
  \A cl \in BOOLEAN : \A id \in MessageIds : \A beh \in ClientBehaviours :
    LET c == get_message_content([service |-> TRUE], id, FALSE)
    IN  /\ EC_is_job_related(cl, c.from, c.subject, c.snippet, beh).exc = "none"
        /\ EC_classify_email(cl, c.from, c.subject, c.body, beh).exc = "none"

\* C7: whatever the model client does, the two calls of the classifier return a value;
\* no pass of the loop ends the run with an exception of the classifier, and a pass in
\* which the model client failed records the message like any other
C7_ClassifierNeverRaises ==
  /\ ClassifierReturns
  /\ ~run.step.raised
  /\ (run.step.rel = "error" \/ run.step.ext = "error") => run.step.marked

\* a run committed after a pass in which the extraction call failed and the keyword
\* classifier supplied the details
C7_Witness ==
  /\ Committed
  /\ run.step.ext = "error"
  /\ run.step.classified

\* C8: when the keyword check on (sender, subject, snippet) marked the message related
\* and the extraction call of the model client fails, classify_email returns details
C8_HeuristicResultOnError ==
  ( /\ run.step.ext = "error"
    /\ IsJobRelatedOf[FALSE][run.step.id][NoCall].value ) => run.step.classified

C10_UnavailableSkipped ==
  /\ (run.step.fetched /\ ~run.step.got) =>
       /\ ~run.step.raised
       /\ run.step.rel = "-" /\ run.step.ext = "-"
       /\ ~run.step.marked /\ ~run.step.classified
       /\ ~run.step.wrote /\ ~run.step.counted
  /\ \A id \in run.unavailable : Recorded(run.sess, id) = 0
  /\ (run.pc = "loop" /\ run.step.id \in last.unavailable) => run.step.fetched

\* a run records a message for which the last committed run got no content, after
\* that run went on to record another message of its batch
C10_Witness ==
  /\ run.pc = "loop"
  /\ run.step.id \in last.unavailable
  /\ run.step.marked
  /\ \E id \in BatchIds(last) : Recorded(run.base, id) = 1

\* the pass the trace describes is the last thing that happened to the session
AfterPass == run.pc = "loop" \/ Committed

\* the message of the pass the trace describes
StepMessage == MessageOf(run.step.id)

\* the classifications classify_email can have returned in the pass the trace
\* describes: those of the things the model client may do that end the way the
\* extraction call of the pass ended
StepDetails ==
  {ClassifyEmailOf[client][run.step.id][b].value.dict :
     b \in {e \in (IF client THEN ExtBehavioursFor(run.step.id) ELSE {NoCall}) :
              /\ CallKind(client, e) = run.step.ext
              /\ run.step.ext = "text" => e.text = run.step.said
              /\ ~ClassifyEmailOf[client][run.step.id][e].value.is_none}}

ACME == <<"A","c","m","e">>

\* C12: a pass with a classification for a message whose thread no Application of the
\* user had adds one Application, the last one, owned by the user, with the company, job
\* title and location of the classification, the mapped status and the thread id of the
\* message; it adds one StatusChange, the last one, from no status to that status with
\* source email for that Application; it adds 1 to the counter of new Applications and
\* modifies nothing else. For the message of careers@acme.com "Thank you for applying
\* to Acme" the keyword classifier gives company Acme and status APPLIED
C12_Created ==
  (AfterPass /\ run.step.classified /\ run.step.matched = 0) =>
    LET a   == Len(run.sess.apps)
        app == run.sess.apps[a]
        row == run.sess.changes[Len(run.sess.changes)]
    IN  /\ run.step.d_apps = 1 /\ run.step.d_changes = 1
        /\ run.step.d_new = 1 /\ run.step.d_updated = 0
        /\ ~run.step.modified
        /\ app.user_id = run.user
        /\ app.email_thread_id = StepMessage.threadId
        /\ app.status = run.step.status
        /\ StepDetails # {}
        /\ \A d \in StepDetails :
             /\ app.company = Get(d, K_company, UNKNOWN)
             /\ app.job_title = Get(d, K_job_title, UNKNOWN)
             /\ app.location = Get(d, K_location, UNKNOWN)
             /\ app.status = MapStatus(d)
        /\ row = [application_id |-> a, old_status |-> "None",
                  new_status |-> app.status, source |-> "email"]
        /\ (run.step.id = "m1" /\ run.step.ext \in {"-", "error"}) =>
             (app.company = ACME /\ app.status = "APPLIED")

\* the keyword classifier alone created the Application for the message of
\* careers@acme.com
C12_Witness ==
  /\ AfterPass /\ run.step.classified /\ run.step.matched = 0
  /\ run.step.id = "m1" /\ run.step.ext = "-"
  /\ run.new_applications = 1

\* C13: a pass with a classification for a message whose thread an Application of the
\* user had, mapped to another status than that Application had, sets its status to
\* the mapped status and its last email date to the date of the message, adds one
\* StatusChange, the last one, from the old to the new status with source email, adds
\* no Application and adds 1 to the counter of updated Applications
C13_Updated ==
  ( /\ AfterPass /\ run.step.classified
    /\ run.step.matched # 0 /\ run.step.status # run.step.was ) =>
    LET app == run.sess.apps[run.step.matched]
        row == run.sess.changes[Len(run.sess.changes)]
    IN  /\ run.step.d_apps = 0 /\ run.step.d_changes = 1
        /\ run.step.d_new = 0 /\ run.step.d_updated = 1
        /\ app.status = run.step.status
        /\ app.last_email_date = StepMessage.internalDate \div 1000
        /\ app.user_id = run.user
        /\ row = [application_id |-> run.step.matched, old_status |-> run.step.was,
                  new_status |-> run.step.status, source |-> "email"]

\* the Application of the thread was APPLIED and the keyword classifier read the
\* message "Interview invitation" of the same thread
C13_Witness ==
  /\ AfterPass /\ run.step.classified
  /\ run.step.id = "m3" /\ run.step.ext = "-"
  /\ run.step.matched # 0 /\ run.step.was = "APPLIED"
  /\ run.step.status = "INTERVIEWING"
  /\ Len(run.sess.apps) = 1

\* C14: a pass with a classification for a message whose thread an Application of the
\* user had, mapped to the status that Application had, modifies no Application, adds
\* no Application and no StatusChange, leaves both counters alone and records the message
C14_Unchanged ==
  ( /\ AfterPass /\ run.step.classified
    /\ run.step.matched # 0 /\ run.step.status = run.step.was ) =>
    /\ run.step.d_apps = 0 /\ run.step.d_changes = 0
    /\ ~run.step.modified
    /\ run.step.d_new = 0 /\ run.step.d_updated = 0
    /\ run.step.marked /\ run.step.d_ledger = 1
    /\ Recorded(run.sess, run.step.id) = 1

\* a message of a thread whose Application already had the status of the message
C14_Witness ==
  /\ AfterPass /\ run.step.classified
  /\ run.step.matched # 0 /\ run.step.status = run.step.was
  /\ run.sess.apps[run.step.matched].last_email_date # StepMessage.internalDate \div 1000

\* C15: a pass with a classification for a message without a thread id finds no
\* Application to merge into and adds one
C15_NoThreadCreates ==
  (AfterPass /\ run.step.classified /\ StepMessage.threadId = "") =>
    /\ run.step.matched = 0
    /\ run.step.created = Len(run.sess.apps)
    /\ run.step.d_apps = 1 /\ run.step.d_new = 1
    /\ ~run.step.modified

\* two messages without a thread id left two Applications of one user with the same
\* company and job title
C15_Witness ==
  /\ AfterPass /\ run.step.classified /\ StepMessage.threadId = ""
  /\ \E j \in DOMAIN run.sess.apps :
       /\ j # run.step.created
       /\ run.sess.apps[j].email_thread_id = ""
       /\ run.sess.apps[j].user_id = run.user
       /\ run.sess.apps[j].company = run.sess.apps[run.step.created].company
       /\ run.sess.apps[j].job_title = run.sess.apps[run.step.created].job_title

\* classify_email returns no result for the reply NOT_JOB_EMAIL, whatever the message
SentinelGivesNone ==
  \A id \in MessageIds :
    LET c == get_message_content([service |-> TRUE], id, FALSE)
    IN  EC_classify_email(TRUE, c.from, c.subject, c.body, Reply(NOT_JOB_EMAIL)).value.is_none

\* C18: when the extraction reply is NOT_JOB_EMAIL, classify_email returns no result;
\* the pass adds and modifies no Application, adds no StatusChange, leaves the counters
\* alone, and the message is recorded as job-related
C18_SentinelStops ==
  /\ SentinelGivesNone
  /\ (AfterPass /\ run.step.ext = "sentinel") =>
       /\ ~run.step.classified
       /\ run.step.d_apps = 0 /\ run.step.d_changes = 0 /\ ~run.step.modified
       /\ run.step.d_new = 0 /\ run.step.d_updated = 0
       /\ run.step.marked /\ run.step.is_job /\ run.step.d_ledger = 1
       /\ \E k \in DOMAIN run.sess.ledger :
            /\ run.sess.ledger[k].message_id = run.step.id
            /\ run.sess.ledger[k].is_job_related

\* the keyword check had found the message related and the model client replied
\* NOT_JOB_EMAIL; the run committed the record and no Application
C18_Witness ==
  /\ Committed
  /\ run.step.ext = "sentinel" /\ run.step.rel = "-"
  /\ IsJobRelatedOf[FALSE][run.step.id][NoCall].value
  /\ db.apps = <<>> /\ Recorded(db, run.step.id) = 1

----------------------------------------------------------------------------
(* The contract of the classifiers and of the status mapping *)

\* the six status strings STATUS_MAP knows, with the lifecycle status of each
KnownStatus ==
  (<<"a","p","p","l","i","e","d">> :> "APPLIED") @@ (<<"s","c","r","e","e","n","i","n","g">> :> "SCREENING") @@ (<<"i","n","t","e","r","v","i","e","w","i","n","g">> :> "INTERVIEWING")
  @@ (<<"o","f","f","e","r">> :> "OFFER") @@ (<<"d","e","c","l","i","n","e","d">> :> "DECLINED") @@ (<<"w","i","t","h","d","r","a","w","n">> :> "WITHDRAWN")

\* C11: a classification without a status, or with a status that is none of the six
\* known strings whatever its case, is mapped to APPLIED; a known one, whatever its
\* case, to its lifecycle status; the mapping always returns one of the six
C11_UnknownStatusApplied ==
  call.fn = "MapStatus" =>
    /\ call.result \in {KnownStatus[s] : s \in DOMAIN KnownStatus}
    /\ K_status \notin DOMAIN call.details => call.result = "APPLIED"
    /\ K_status \in DOMAIN call.details =>
         LET s == Lower(call.details[K_status])
         IN  call.result = IF s \in DOMAIN KnownStatus THEN KnownStatus[s] ELSE "APPLIED"

\* the mapping was called with the status "pending"
C11_Witness ==
  /\ call.fn = "MapStatus"
  /\ K_status \in DOMAIN call.details
  /\ call.details[K_status] = <<"p","e","n","d","i","n","g">>
  /\ call.result = "APPLIED"

\* the keyword rules that look at the sender or at the subject alone
SenderOrSubjectRule(sender, subject) ==
  \/ \E k \in DOMAIN JOB_SENDERS : Contains(JOB_SENDERS[k], Lower(sender))
  \/ \E k \in DOMAIN JOB_SENDER_PREFIXES : Contains(JOB_SENDER_PREFIXES[k], Lower(sender))
  \/ \E k \in DOMAIN JOB_SUBJECT_KEYWORDS : Contains(JOB_SUBJECT_KEYWORDS[k], Lower(subject))

\* the entries of the body keyword list that the subject, a space and the snippet contain
BodyHits(subject, snippet) ==
  {JOB_BODY_KEYWORDS[k] : k \in
     {j \in DOMAIN JOB_BODY_KEYWORDS :
        Contains(JOB_BODY_KEYWORDS[j], Lower(subject) \o <<" ">> \o Lower(snippet))}}

AffirmativeReplies == {Reply(<<"Y","e","s">>), Reply(<<" ","Y","E","S","\n">>)}

\* C17: after a keyword miss and with a client, is_job_related returns related exactly
\* when the reply is yes, and unrelated, without raising, when the call fails
C17_ModelDecidesAfterMiss ==
  ( /\ call.fn = "EmailClassifier.is_job_related"
    /\ client
    /\ ~KW_is_job_related(call.sender, call.subject, call.snippet) ) =>
    /\ call.result.exc = "none"
    /\ call.result.value <=> call.beh \in AffirmativeReplies
    /\ (call.beh.exc # "none" \/ call.beh.null) => ~call.result.value

\* the keyword check missed and the model client said yes
C17_Witness ==
  /\ call.fn = "EmailClassifier.is_job_related"
  /\ client
  /\ ~KW_is_job_related(call.sender, call.subject, call.snippet)
  /\ call.beh \in AffirmativeReplies
  /\ call.result = Returned(TRUE)

\* the replies of ExtractionReplies that have a company, with the details each stands for
ParsedReplies ==
  (<<"C","o","m","p","a","n","y",":"," ","A","c","m","e","\n","J","o","b"," ","T","i","t","l","e",":"," ","E","n","g","i","n","e","e","r","\n","L","o","c","a","t","i","o","n",":"," ","R","e","m","o","t","e","\n","S","t","a","t","u","s",":"," ","I","n","t","e","r","v","i","e","w","i","n","g">> :>
     ((<<"c","o","m","p","a","n","y">> :> <<"A","c","m","e">>) @@ (<<"j","o","b","_","t","i","t","l","e">> :> <<"E","n","g","i","n","e","e","r">>) @@ (<<"l","o","c","a","t","i","o","n">> :> <<"R","e","m","o","t","e">>) @@ (<<"s","t","a","t","u","s">> :> <<"i","n","t","e","r","v","i","e","w","i","n","g">>)))
  @@ (<<"C","o","m","p","a","n","y",":"," ","A","c","m","e","\n","S","t","a","t","u","s",":"," ","R","e","j","e","c","t","e","d"," ","b","y"," ","t","h","e"," ","t","e","a","m">> :>
     ((<<"c","o","m","p","a","n","y">> :> <<"A","c","m","e">>) @@ (<<"s","t","a","t","u","s">> :> <<"d","e","c","l","i","n","e","d">>)))
  @@ (<<"c","o","m","p","a","n","y"," ",":"," ","A","c","m","e","\n","S","t","a","t","u","s",":"," ","P","e","n","d","i","n","g">> :>
     ((<<"c","o","m","p","a","n","y">> :> <<"A","c","m","e">>) @@ (<<"s","t","a","t","u","s">> :> <<"P","e","n","d","i","n","g">>)))

\* the replies of ExtractionReplies that are parsed and have no company, or an empty one
RepliesWithoutCompany ==
  {<<"C","o","m","p","a","n","y",":","\n","S","t","a","t","u","s",":"," ","O","f","f","e","r">>,
   <<"J","o","b"," ","T","i","t","l","e",":"," ","E","n","g","i","n","e","e","r","\n","S","t","a","t","u","s",":"," ","O","f","f","e","r">>,
   <<"I"," ","c","a","n","n","o","t"," ","t","e","l","l">>}

C20_TwoBodyKeywords ==
  call.fn = "KeywordClassifier.is_job_related" =>
    /\ ~SenderOrSubjectRule(call.sender, call.subject) =>
         (call.result <=> Cardinality(BodyHits(call.subject, call.snippet)) >= 2)
    /\ (\E k \in DOMAIN JOB_SENDERS : Contains(JOB_SENDERS[k], Lower(call.sender))) =>
         call.result

\* one body keyword, no other rule: not related
C20_Witness ==
  /\ call.fn = "KeywordClassifier.is_job_related"
  /\ ~SenderOrSubjectRule(call.sender, call.subject)
  /\ Cardinality(BodyHits(call.subject, call.snippet)) = 1
  /\ ~call.result

----------------------------------------------------------------------------
(* The keyword rules, one by one *)

\* the address of a From header: the text between the angle brackets, or the header
AddressOf(sender) ==
  LET lt == {i \in 1..Len(sender) : sender[i] = "<"}
      gt == {i \in 1..Len(sender) : sender[i] = ">"}
  IN  IF lt = {} \/ gt = {} THEN sender
      ELSE SubSeq(sender, (CHOOSE i \in lt : \A j \in lt : i <= j) + 1,
                          (CHOOSE i \in gt : \A j \in gt : i >= j) - 1)

\* the part of the address before its "@"
LocalPartOf(sender) ==
  LET a   == AddressOf(sender)
      ats == {i \in 1..Len(a) : a[i] = "@"}
  IN  IF ats = {} THEN a
      ELSE SubSeq(a, 1, (CHOOSE i \in ats : \A j \in ats : i <= j) - 1)

\* the part of the address after its "@"
DomainOf(sender) ==
  LET a   == AddressOf(sender)
      ats == {i \in 1..Len(a) : a[i] = "@"}
  IN  IF ats = {} THEN <<>>
      ELSE SubSeq(a, (CHOOSE i \in ats : \A j \in ats : i >= j) + 1, Len(a))

\* the label of the domain directly left of its last label
RegistrableLabel(sender) ==
  LET d    == DomainOf(sender)
      dots == {i \in 1..Len(d) : d[i] = "."}
  IN  IF dots = {} THEN d
      ELSE LET lastDot == CHOOSE i \in dots : \A j \in dots : i >= j
               before  == {i \in dots : i < lastDot}
               from    == IF before = {} THEN 1
                          ELSE (CHOOSE i \in before : \A j \in before : i >= j) + 1
           IN  SubSeq(d, from, lastDot - 1)

\* the role prefixes
ROLE_PREFIXES ==
  {<<"h","r">>,
   <<"r","e","c","r","u","i","t","i","n","g">>,
   <<"c","a","r","e","e","r","s">>,
   <<"t","a","l","e","n","t">>,
   <<"j","o","b","s">>,
   <<"h","i","r","i","n","g">>,
   <<"r","e","c","r","u","i","t","m","e","n","t">>,
   <<"n","o","r","e","p","l","y">>,
   <<"n","o","-","r","e","p","l","y">>,
   <<"a","p","p","l","y">>,
   <<"a","p","p","l","i","c","a","t","i","o","n","s">>}

\* C21: a message that no rule on the sender domain, on the subject or on the body
\* makes related is related exactly when the local part of its sender address starts
\* with one of the role prefixes
C21_LocalPartStartsWithRole ==
  ( /\ call.fn = "KeywordClassifier.is_job_related"
    /\ ~\E k \in DOMAIN JOB_SENDERS : Contains(JOB_SENDERS[k], Lower(call.sender))
    /\ ~\E k \in DOMAIN JOB_SUBJECT_KEYWORDS :
          Contains(JOB_SUBJECT_KEYWORDS[k], Lower(call.subject))
    /\ Cardinality(BodyHits(call.subject, call.snippet)) < 2 ) =>
    (call.result <=>
       \E p \in ROLE_PREFIXES : MatchAt(p, Lower(LocalPartOf(call.sender)), 0))

\* the categories of STATUS_PATTERNS in their order of priority
CategoryOrder ==
  <<<<"d","e","c","l","i","n","e","d">>,
    <<"i","n","t","e","r","v","i","e","w","i","n","g">>,
    <<"s","c","r","e","e","n","i","n","g">>,
    <<"o","f","f","e","r">>,
    <<"a","p","p","l","i","e","d">>>>

\* some pattern of the category matches the text in lower case
CategoryMatches(c, text) ==
  \E k \in DOMAIN STATUS_PATTERNS :
    /\ STATUS_PATTERNS[k].status = c
    /\ \E j \in DOMAIN STATUS_PATTERNS[k].patterns :
         ReSearch(STATUS_PATTERNS[k].patterns[j], Lower(text))

\* C22: detect_status returns the first category, in the order declined, interviewing,
\* screening, offer, applied, that has a pattern matching the text in lower case, and
\* applied when none has; a text with a declined pattern is declined whatever else it
\* matches
C22_FirstCategoryWins ==
  call.fn = "KeywordClassifier.detect_status" =>
    LET m == {k \in DOMAIN CategoryOrder : CategoryMatches(CategoryOrder[k], call.content)}
    IN  /\ m = {} => call.result = CategoryOrder[5]
        /\ m # {} => call.result = CategoryOrder[CHOOSE k \in m : \A j \in m : k <= j]
        /\ CategoryMatches(CategoryOrder[1], call.content) => call.result = CategoryOrder[1]

\* a text with a declined and an interviewing phrase was found declined
C22_Witness ==
  /\ call.fn = "KeywordClassifier.detect_status"
  /\ call.content = <<"U","n","f","o","r","t","u","n","a","t","e","l","y"," ","w","e"," ","c","a","n","n","o","t"," ","s","c","h","e","d","u","l","e"," ","a","n"," ","i","n","t","e","r","v","i","e","w">>
  /\ CategoryMatches(CategoryOrder[2], call.content)
  /\ call.result = <<"d","e","c","l","i","n","e","d">>

\* C23: extract_company returns the display name before the angle bracket unless it is
\* a generic role; otherwise the label of the sender domain directly left of the public
\* suffix, capitalised, unless it is a mail provider or an applicant tracking system;
\* otherwise Unknown Company. The keyword classifier gives Unknown as job title and
\* location
C23_CompanyOfSender ==
  /\ call.fn = "KeywordClassifier.extract_company" =>
       LET m     == DisplayNameMatch(call.sender)
           name  == Strip(m.group)
           label == RegistrableLabel(call.sender)
       IN  call.result =
             IF m.ok /\ Lower(name) \notin GENERIC_NAMES THEN name
             ELSE IF label # <<>> /\ Lower(label) \notin GENERIC_DOMAINS THEN Title(label)
             ELSE UNKNOWN_COMPANY
  /\ (call.fn = "KeywordClassifier.classify_email" /\ ~call.result.is_none) =>
       /\ call.result.dict[K_job_title] = UNKNOWN
       /\ call.result.dict[K_location] = UNKNOWN

----------------------------------------------------------------------------
(* The run as a whole *)

\* the StatusChange rows a store has beyond those of an earlier one that move an
\* Application from one status to another
UpdatesSince(store, before) ==
  Cardinality({k \in DOMAIN store.changes :
                 k > Len(before.changes) /\ store.changes[k].old_status # "None"})

C25_OwnEntitiesOnly ==
  \A store \in Stores :
    run.pc \in {"loop", "done"} =>
      /\ Len(store.apps) >= Len(run.base.apps)
      /\ \A k \in DOMAIN store.apps :
           k > Len(run.base.apps) => store.apps[k].user_id = run.user
      /\ \A k \in DOMAIN run.base.apps :
           /\ store.apps[k].user_id = run.base.apps[k].user_id
           /\ store.apps[k] # run.base.apps[k] => run.base.apps[k].user_id = run.user
      /\ \A k \in DOMAIN store.changes :
           IF k <= Len(run.base.changes) THEN store.changes[k] = run.base.changes[k]
           ELSE store.apps[store.changes[k].application_id].user_id = run.user
      /\ Len(store.changes) >= Len(run.base.changes)

\* a run created an Application for a thread that another user has an Application for
C25_Witness ==
  /\ Committed
  /\ \E j \in DOMAIN run.base.apps, k \in DOMAIN db.apps :
       /\ k > Len(run.base.apps)
       /\ run.base.apps[j].user_id # run.user
       /\ run.base.apps[j].email_thread_id = "t1"
       /\ db.apps[k].email_thread_id = "t1"
       /\ db.apps[k].user_id = run.user
       /\ db.apps[j] = run.base.apps[j]

\* C26: run_sync never gives the status ACCEPTED: no Application has it and no
\* StatusChange with source email leads to it or starts from it, whatever status the
\* keyword classifier or the model client names
C26_NeverAccepted ==
  \A store \in Stores :
    /\ \A k \in DOMAIN store.apps : store.apps[k].status # "ACCEPTED"
    /\ \A k \in DOMAIN store.changes :
         store.changes[k].source = "email" =>
           /\ store.changes[k].new_status # "ACCEPTED"
           /\ store.changes[k].old_status # "ACCEPTED"

\* the model client named the status Accepted and the Application was created as APPLIED
C26_Witness ==
  /\ AfterPass /\ run.step.classified
  /\ run.step.said = OutOfVocabulary.text
  /\ run.step.created # 0
  /\ run.sess.apps[run.step.created].status = "APPLIED"

\* the messages the list calls of the labels from the k-th on return, one list after
\* the other, the labels in failing left out
RECURSIVE Listed(_, _, _, _, _)
Listed(k, now, since_hours, max_results, failing) ==
  IF k > Len(GMAIL_LABELS) THEN <<>>
  ELSE (IF GMAIL_LABELS[k] \in failing THEN <<>>
        ELSE messages_list(now, since_hours, GMAIL_LABELS[k], max_results))
       \o Listed(k + 1, now, since_hours, max_results, failing)

\* the first position of a message id in a list of messages
FirstAt(messages, id) ==
  CHOOSE i \in DOMAIN messages :
    messages[i].id = id /\ \A j \in DOMAIN messages : messages[j].id = id => i <= j

\* C27: fetch_messages returns every listed message once, also a message listed under
\* several labels, and in the order of the first occurrences
C27_EachIdOnce ==
  call.fn = "GmailService.fetch_messages" =>
    LET listed == Listed(1, call.now, call.since_hours, call.max_results, call.failing)
    IN  /\ \A i, j \in DOMAIN call.result :
             call.result[i].id = call.result[j].id => i = j
        /\ {call.result[i] : i \in DOMAIN call.result}
             = {listed[i] : i \in DOMAIN listed}
        /\ \A i, j \in DOMAIN call.result :
             i < j => FirstAt(listed, call.result[i].id) < FirstAt(listed, call.result[j].id)

\* a message with both labels was listed twice and returned once, before a message
\* that was listed between its two occurrences
C27_Witness ==
  /\ call.fn = "GmailService.fetch_messages"
  /\ Len(Listed(1, call.now, call.since_hours, call.max_results, call.failing)) = 3
  /\ Len(call.result) = 2
  /\ call.result[1].id = "m3" /\ call.result[2].id = "m4"

\* every record of the first ledger is, in its place and unchanged, in the second
LedgerKept(before, after) ==
  /\ Len(after.ledger) >= Len(before.ledger)
  /\ \A k \in DOMAIN before.ledger : after.ledger[k] = before.ledger[k]

\* C28: the ledger only grows: no step removes or changes a committed ProcessedEmail
\* record, so a recorded message id stays recorded with the is_job_related value it
\* was recorded with; the session of a run in progress holds every committed record too
C28_LedgerInsertOnly ==
  [][ /\ LedgerKept(db, db')
      /\ run'.pc = "loop" => LedgerKept(db', run'.sess) ]_vars

\* a later run committed new records next to those of an earlier run
C28_Witness ==
  /\ Committed
  /\ Len(run.base.ledger) >= 1
  /\ Len(db.ledger) > Len(run.base.ledger)
  /\ db.ledger[1] = run.base.ledger[1]

\* the thread ids of MAIL, the empty one excepted
Threads == {MAIL[k].threadId : k \in DOMAIN MAIL} \ {""}

\* the Applications of the user of the run, for a thread, that the run has created
MadeForThread(thread_id) ==
  {k \in OfThread(run.sess, thread_id, run.user) : k > Len(run.base.apps)}

\* C29: the passes of a run follow one another, each reading what the earlier ones
\* wrote: a run creates at most one Application per non-empty thread, and when the
\* user had none for the thread of a classified message, the run has created exactly
\* one, which every later classified message of the thread is merged into
C29_OneCreatedPerThread ==
  run.pc \in {"loop", "done"} =>
    \A t \in Threads :
      /\ Cardinality(MadeForThread(t)) <= 1
      /\ ( /\ AfterPass /\ run.step.classified
           /\ StepMessage.threadId = t
           /\ OfThread(run.base, t, run.user) = {} ) =>
           /\ Cardinality(MadeForThread(t)) = 1
           /\ run.step.created = 0 =>
                (run.step.matched \in MadeForThread(t) /\ run.step.d_apps = 0)

\* the second message of a thread was merged into the Application the same run had
\* created for the first
C29_Witness ==
  /\ AfterPass /\ run.step.classified
  /\ StepMessage.threadId = "t1"
  /\ run.step.created = 0
  /\ run.step.matched > Len(run.base.apps)
  /\ run.new_applications = 1

\* C30 as stated: when a run is stopped before the end of its batch, what the passes
\* before the stop wrote stays committed: the message of the last pass that recorded one
\* is in the committed ledger
C30_PartialProgressKept ==
  ( /\ run.pc = "done" /\ run.outcome = "exception"
    /\ ~run.step.raised /\ run.step.marked ) =>
    Recorded(db, run.step.id) = 1

\* C31: a run over its batch ends: every step of the loop either moves on to the next
\* message of the same batch or ends the run, the loop never goes beyond the end of the
\* batch, the model client is asked (once per kind, see LoopBody) only about a message
\* whose content was read and that the ledger did not hold, and a run that is in its
\* loop gets to its end
C31_RunTerminates ==
  /\ [][ run.pc = "loop" =>
           \/ /\ run'.pc = "loop"
              /\ run.i <= Len(run.messages)
              /\ run'.i = run.i + 1
              /\ run'.messages = run.messages
           \/ run'.pc = "done" ]_vars
  /\ [](run.pc = "loop" => run.i <= Len(run.messages) + 1)
  /\ [](run.step.rel # "-" \/ run.step.ext # "-" =>
          run.step.got /\ ~run.step.existing /\ client)
  /\ (run.pc = "loop") ~> (run.pc = "done")

\* a run over three messages has committed, the model client asked for the details in its last pass
C31_Witness ==
  /\ Committed
  /\ run.step.ext # "-"
  /\ Len(run.messages) >= 3
  /\ run.i = Len(run.messages) + 1

\* C32: without a model client the classifier is the keyword classifier: is_job_related
\* and classify_email return what KeywordClassifier.is_job_related and
\* KeywordClassifier.classify_email return for the same arguments, nothing is raised, and
\* no request is sent
C32_FacadeIsHeuristic ==
  ~client =>
    /\ call.fn = "EmailClassifier.is_job_related" =>
         /\ call.result = Returned(KW_is_job_related(call.sender, call.subject, call.snippet))
         /\ call.requests = 0
    /\ call.fn = "EmailClassifier.classify_email" =>
         /\ call.result = Returned(KW_classify_email(call.sender, call.subject, call.body))
         /\ call.requests = 0

\* without a model client, classify_email has returned the details the keywords give
C32_Witness ==
  /\ ~client
  /\ call.fn = "EmailClassifier.classify_email"
  /\ ~call.result.value.is_none
  /\ call.requests = 0

\* C33: fetch_messages returns at most max_results messages, whatever the labels
C33_AtMostMaxResults ==
  call.fn = "GmailService.fetch_messages" => Len(call.result) <= call.max_results


\* the status a reply of the model states, lower-cased; empty when it states none
StatedStatus(beh) ==
  LET details == ParseDetails(Strip(beh.text))
  IN  IF K_status \in DOMAIN details THEN Lower(details[K_status]) ELSE <<>>

REJECTED == <<"r","e","j","e","c","t","e","d">>

\* C34: when the model's reply names a company and states one of the six status labels,
\* in any letter case, classify_email returns details that run_sync maps to the
\* lifecycle status of that label, and a stated status of "Rejected" is mapped to
\* DECLINED, not to the default
C34_StatusNormalized ==
  ( /\ call.fn = "EmailClassifier.classify_email" /\ client
    /\ call.beh.exc = "none" /\ ~call.beh.null
    /\ HasCompany(ParseDetails(Strip(call.beh.text))) ) =>
    LET stated == StatedStatus(call.beh)
    IN  /\ call.result.exc = "none" /\ ~call.result.value.is_none
        /\ stated \in DOMAIN KnownStatus =>
             /\ call.result.value.dict[K_status] = stated
             /\ MapStatus(call.result.value.dict) = KnownStatus[stated]
        /\ stated = REJECTED =>
             /\ call.result.value.dict[K_status] = <<"d","e","c","l","i","n","e","d">>
             /\ MapStatus(call.result.value.dict) = "DECLINED"

\* the model stated "Rejected" and the details say declined
C34_Witness ==
  /\ call.fn = "EmailClassifier.classify_email" /\ client
  /\ call.beh.exc = "none" /\ ~call.beh.null
  /\ StatedStatus(call.beh) = REJECTED
  /\ MapStatus(call.result.value.dict) = "DECLINED"


\* an Application with its status and its last-email date blanked
Identity(app) == [app EXCEPT !.status = "-", !.last_email_date = 0]

\* C35: a pass of the loop leaves every Application the session held where it was and
\* with its owner, company, job title, location, thread id and applied date; a pass
\* for a message whose thread has an Application of the user adds no Application
C35_UpdateKeepsIdentity ==
  [][ (run.pc = "loop" /\ run'.pc = "loop") =>
        /\ \A k \in DOMAIN run.sess.apps :
             /\ k \in DOMAIN run'.sess.apps
             /\ Identity(run'.sess.apps[k]) = Identity(run.sess.apps[k])
        /\ (run'.step.classified /\ run'.step.matched # 0) =>
             Len(run'.sess.apps) = Len(run.sess.apps) ]_vars

\* a message was merged into an Application whose company is not the one its
\* classification names
C35_Witness ==
  /\ AfterPass /\ run.step.classified
  /\ run.step.matched # 0 /\ run.step.modified
  /\ \E d \in StepDetails :
       /\ K_company \in DOMAIN d
       /\ d[K_company] # run.sess.apps[run.step.matched].company

\* C37: the ledger is looked up by message id alone: a pass for a message the ledger
\* holds, whichever user's run recorded it, reads no content, asks no classifier, and
\* creates or changes no Application, StatusChange or ledger record; the counters of the
\* run stay as they were
C37_SkippedForEveryUser ==
  (AfterPass /\ run.step.existing) =>
    /\ ~run.step.fetched /\ ~run.step.marked /\ ~run.step.classified
    /\ run.step.rel = "-" /\ run.step.ext = "-"
    /\ run.step.created = 0 /\ run.step.change = 0 /\ ~run.step.modified
    /\ run.step.d_ledger = 0 /\ run.step.d_apps = 0 /\ run.step.d_changes = 0
    /\ run.step.d_new = 0 /\ run.step.d_updated = 0

\* a run for u2 skipped a job-related message that the run for u1 before it had
\* recorded, and u2 has no Application
C37_Witness ==
  /\ Committed /\ run.step.existing
  /\ run.user = "u2" /\ run.base # EmptyStore
  /\ \A k \in DOMAIN run.base.apps : run.base.apps[k].user_id = "u1"
  /\ \E k \in DOMAIN run.base.ledger :
       /\ run.base.ledger[k].message_id = run.step.id
       /\ run.base.ledger[k].is_job_related
  /\ \A k \in DOMAIN db.apps : db.apps[k].user_id = "u1"
  /\ Len(db.apps) >= 1

\* the ledger records a store has beyond those of an earlier one that say job-related
RelatedSince(store, before) ==
  Cardinality({k \in DOMAIN store.ledger :
                 k > Len(before.ledger) /\ store.ledger[k].is_job_related})

\* C38: during a run and at its commit the counter of new Applications is the number
\* of Applications the session holds beyond those the run found, the counter of updated
\* Applications is the number of StatusChange rows with an old status it holds beyond
\* those the run found, the two add up to the number of StatusChange rows added, and
\* that is at most the number of ledger records added that say job-related
C38_CountersExact ==
  AfterPass =>
    /\ run.new_applications = Len(run.sess.apps) - Len(run.base.apps)
    /\ run.updated_applications = UpdatesSince(run.sess, run.base)
    /\ run.new_applications + run.updated_applications
         = Len(run.sess.changes) - Len(run.base.changes)
    /\ Len(run.sess.changes) - Len(run.base.changes) <= RelatedSince(run.sess, run.base)

\* a run that found Applications created one and updated one, and recorded a third
\* job-related message that changed nothing
C38_Witness ==
  /\ Committed
  /\ Len(run.base.apps) >= 1
  /\ run.new_applications = 1 /\ run.updated_applications = 1
  /\ RelatedSince(db, run.base) = 3

\* C39: a pass changes the status of an Application only when it classified a message
\* of the thread of that Application for its owner, and after a pass that classified a
\* message with a thread id the Application of the user for that thread has the mapped
\* status of that message, whatever status it had: the last message classified wins
C39_LastMessageWins ==
  [][ (run.pc = "loop" /\ run'.pc = "loop") =>
        LET t == MessageOf(run.messages[run.i].id).threadId
        IN  /\ \A k \in DOMAIN run.sess.apps :
                 run'.sess.apps[k].status # run.sess.apps[k].status =>
                   /\ run'.step.classified
                   /\ t # "" /\ run.sess.apps[k].email_thread_id = t
                   /\ run.sess.apps[k].user_id = run.user
            /\ (run'.step.classified /\ t # "") =>
                 /\ OfThread(run'.sess, t, run.user) # {}
                 /\ \A k \in OfThread(run'.sess, t, run.user) :
                      /\ run'.sess.apps[k].status = run'.step.status
                      /\ \E d \in StepDetails' : MapStatus(d) = run'.step.status ]_vars

\* an Application that was INTERVIEWING took the status APPLIED of an older message
\* of its thread that was processed later
C39_Witness ==
  /\ AfterPass /\ run.step.classified
  /\ run.step.matched # 0
  /\ run.step.was = "INTERVIEWING" /\ run.step.status = "APPLIED"
  /\ run.sess.apps[run.step.matched].status = "APPLIED"

\* the resumes of a user that are its default
DefaultsOf(rows, user_id) ==
  {k \in DOMAIN rows : rows[k].present /\ rows[k].user_id = user_id /\ rows[k].is_default}

\* C40: each user has at most one default resume, and a request of a user changes the
\* default flag of no resume of another user
C40_OneDefaultPerUser ==
  /\ [](\A u \in Users : Cardinality(DefaultsOf(resumes, u)) <= 1)
  /\ [][ \A k \in DOMAIN resumes :
           ( /\ resumes[k].present /\ resumes'[k].present
             /\ resumes'[k].is_default # resumes[k].is_default ) =>
             \A j \in DOMAIN resumes' :
               ( /\ resumes'[j].present
                 /\ (j \notin DOMAIN resumes \/ resumes'[j] # resumes[j]) ) =>
                 resumes'[j].user_id = resumes[k].user_id ]_vars

\* each of the two users has a default resume, and one of them another resume that
\* was the default before
C40_Witness ==
  /\ Len(resumes) = 3
  /\ \A u \in Users : Cardinality(DefaultsOf(resumes, u)) = 1
  /\ resumes[1].present /\ ~resumes[1].is_default
  /\ resumes[3].is_default /\ resumes[3].user_id = resumes[1].user_id

\* the messages with a thread id that the batches of the two requests share
SharedInThread ==
  {id \in BatchIds(pair.a) \cap BatchIds(pair.b) : MessageOf(id).threadId # ""}

\* C36 as stated: when the two requests were served at once and their batches share a
\* message with a thread id, the committed store has at most one ProcessedEmail of
\* that message and at most one Application of the user for its thread
C36_InterleavedRunsSafe ==
  pair.overlapped =>
    \A id \in SharedInThread :
      /\ Recorded(db, id) <= 1
      /\ Cardinality(OfThread(db, MessageOf(id).threadId, PairUser)) <= 1

\* C36: the committed store never has two ProcessedEmail of a message; it has at most
\* one Application of the user per thread id when the two requests were served one
\* after the other, and at most one per request that committed when they were served
\* at once
C36_OneRecordPerId ==
  /\ \A id \in MessageIds : Recorded(db, id) <= 1
  /\ \A id \in MessageIds :
       LET t == MessageOf(id).threadId
           n == Cardinality({x \in {"a", "b"} : pair[x].outcome = "success"})
       IN  /\ Cardinality(OfThread(db, t, PairUser)) <= n
           /\ ~pair.overlapped => Cardinality(OfThread(db, t, PairUser)) <= 1

\* the two requests were served at once over batches that share m3; one committed its
\* ProcessedEmail of m3 and the other failed on the unique key
C36_Witness ==
  /\ pair.overlapped
  /\ "m3" \in SharedInThread
  /\ Recorded(db, "m3") = 1
  /\ {pair.a.outcome, pair.b.outcome} = {"success", "exception"}
  /\ Cardinality(OfThread(db, "t1", PairUser)) = 1
====
